---- MODULE Spec2Model ----
(***************************************************************************)
(* Matchmaker / Match lifecycle of the game server.                        *)
(*                                                                         *)
(* Sources: src/src/services/MatchMaker.ts (Matchmaker),                   *)
(*          src/src/services/Match.ts lines 806-1609 (class Match),        *)
(*          src/src/sockets/handlers/Connection.ts lines 7-41,             *)
(*          src/unnamed/part_001 (class Player).                           *)
(*                                                                         *)
(* The process is single threaded: every handler (a socket event, a timer  *)
(* callback, one pass of the driver loop) runs to completion, so each is   *)
(* one atomic action.  Timers are pending entries that fire at any later   *)
(* moment; a cancelled timer is removed from the pending set.              *)
(***************************************************************************)
EXTENDS Integers, Sequences, FiniteSets, TLC

\* ------------------------------------------------------------------ bounds
NumSockets == 3        \* client sessions that ever connect
MaxMatches == 2        \* matches ever created (generateMatchId draws)
MaxDeaths == 1         \* deaths on the score boards beyond which no hit is sent
NumFighters == 1       \* sessions that send toggleBystander
LifeRun == 2           \* server tick beyond which no frame is run, match lifecycle
ShortRun == 12         \* server tick beyond which no frame is run, short runs
LongRun == 80          \* the same, runs that reach the arena floor
MaxInputs == 3         \* playerInput payloads a client sends, short runs
ArenaInputs == 2       \* the same, long runs
RoundRun == 2          \* server tick beyond which no frame is run, rounds
RoundInputs == 1       \* playerInput payloads a client sends, rounds
RoundDeaths == 4       \* deaths on the score boards beyond which no hit is sent, rounds
EndDeaths == 3         \* the same, runs to the end of a match
ShotRun == 5           \* server tick beyond which no frame is run, shots
ShotInputs == 3        \* playerInput payloads a client sends, shots
MaxProjectiles == 2    \* projectiles a match holds at a time, shots
RespawnDeaths == 4     \* deaths recorded before hits stop, respawns
MaxDeltas == 4         \* getLatestStateDelta calls per Player object
MaxScore == 1          \* kills and deaths a Player object counts
DeltaDeaths == 2       \* deaths recorded before hits stop, delta encoding
JumpRun == 80          \* server tick beyond which no frame is run, jumps
JumpInputs == 3        \* playerInput payloads a client sends, jumps
RematchDeaths == 4     \* deaths recorded before hits stop, second rounds
FloodInputs == 101     \* playerInput payloads a client sends, floods
AfkRun == 3            \* server tick beyond which no frame is run, idle players
AfkInputs == 1         \* playerInput payloads a client sends, idle players
AfkDeaths == 3         \* deaths on the score boards beyond which no hit is sent, idle players
ResetDeaths == 4       \* the same, runs in which a match is reset
DeadRun == 3           \* server tick beyond which no frame is run, dead players
DeadInputs == 2        \* playerInput payloads a client sends, dead players

\* ------------------------------------------------------- program constants
MAX_PLAYERS_PER_MATCH == 2   \* config.MAX_PLAYERS_PER_MATCH (environment setting)
MAX_KILL_AMOUNT == 3
MAX_HP == 100
INPUTS_PER_WINDOW == 100     \* playerInput messages to accept per player and window
DAMAGE == 10

Sockets == 1..NumSockets

\* the Match objects the program constructs, in the order of construction
MatchIds == 1..MaxMatches

\* the strings that generateMatchId returns.  A draw of Math.random() may
\* repeat an earlier one; strings that were not drawn before are
\* interchangeable, so the strings are numbered in the order of their first
\* draw
MatchNames == 1..MaxMatches
VALID_REGIONS == {"NA", "EU", "ASIA"}
JoinRegions == {"NA", "EU", "XX"}      \* regions a client sends; "XX" is not valid

\* playerMatchId: derived from the socket id and the match id
NoPid == <<0, 0>>
PlayerMatchIds == Sockets \X MatchNames
PlayerMatchId(s, id) == <<s, id>>

\* the Player objects: Key(s, m) is the player that Match object m holds under
\* the playerMatchId derived from socket s and the id of m
PlayerIds == Sockets \X MatchIds
Key(s, m) == <<s, m>>

OrderedEvents == {"matchFound", "stateUpdate"}

NoPlayer == [hp |-> 0, by |-> FALSE, dc |-> FALSE, in |-> FALSE]
NoScore == [kills |-> 0, deaths |-> 0, in |-> FALSE]
NoHandler == [m |-> 0, p |-> NoPid]

\* new Player(...): hp 100, bystander, connected
NewPlayer == [hp |-> MAX_HP, by |-> TRUE, dc |-> FALSE, in |-> TRUE]

\* a Match object that was not constructed yet.
\*   callbacks     setDisconnectedPlayerCallback and removeDisconnectedPlayerCallback
\*                 are the Matchmaker's methods (FALSE: the no-ops of cleanUpSession)
\*   sockets       the array this.sockets
\*   keys          the keys of worldState.players in insertion order
\*   respawnQueue  the keys of the Map respawnQueue in insertion order
NoMatch ==
  [ id |-> 0, region |-> "", sockets |-> <<>>, s2p |-> [s \in Sockets |-> NoPid],
    p2s |-> [p \in PlayerIds |-> 0],
    players |-> [p \in PlayerIds |-> NoPlayer], keys |-> <<>>,
    playerScores |-> [p \in PlayerIds |-> NoScore],
    respawnQueue |-> <<>>, respawnTimers |-> {}, graceTimers |-> {},
    projectiles |-> <<>>,
    matchIsActive |-> FALSE, matchResetTimeout |-> FALSE,
    isReady |-> FALSE, shouldRemove |-> FALSE, callbacks |-> FALSE ]

\* ------------------------------------------------------------ Player physics
\* Positions are kept in units of 1/TICK_RATE pixel and velocities in pixels
\* per second, so that one fixed step of dt = 1/TICK_RATE s moves a player by
\* its velocity; the arithmetic of update is then exact on integers.
TICK_RATE == 60
SPEED == 750
JUMP_STRENGTH == 750
GRAVITY == 1500
MAX_FALL_SPEED == 1500
GAME_WIDTH == 1920
GAME_HEIGHT == 1080
STARTING_X == 100
STARTING_Y == 100
PLAYER_HALF_WIDTH == 25
PLATFORM_WIDTH == 500
PLATFORM_HEIGHT == 30
PLATFORM_LEFT_X == 115
PLATFORM_RIGHT_INSET == 610
PLATFORM_LOW_INSET == 250
PLATFORM_HIGH_INSET == 500

Px(n) == n * TICK_RATE

GAME_BOUNDS == [left |-> 0, right |-> Px(GAME_WIDTH), top |-> 0, bottom |-> Px(GAME_HEIGHT)]

\* new Platform(x, y): its bounds
Platform(x, y) ==
  [left |-> Px(x), right |-> Px(x + PLATFORM_WIDTH),
   top |-> Px(y), bottom |-> Px(y + PLATFORM_HEIGHT)]

\* Match.initializePlatforms
platforms ==
  << Platform(PLATFORM_LEFT_X, GAME_HEIGHT - PLATFORM_LOW_INSET),
     Platform(GAME_WIDTH - PLATFORM_RIGHT_INSET, GAME_HEIGHT - PLATFORM_LOW_INSET),
     Platform(PLATFORM_LEFT_X, GAME_HEIGHT - PLATFORM_HIGH_INSET),
     Platform(GAME_WIDTH - PLATFORM_RIGHT_INSET, GAME_HEIGHT - PLATFORM_HIGH_INSET) >>

\* new Vector2(0, 0): the constructor takes no argument and sets no field, so
\* the x of the vector is undefined; undefined * SPEED is NaN, and so is every
\* sum with NaN.  Both are kept as numbers that no vector and no coordinate
\* takes.
Undefined == 1000000
NaN == -1000000

Min(a, b) == IF a <= b THEN a ELSE b
Max(a, b) == IF a >= b THEN a ELSE b

Range(f) == {f[i] : i \in DOMAIN f}

\* array.filter(x => x !== e)
Without(sq, e) == SelectSeq(sq, LAMBDA x : x # e)

\* Map.set(key, ...) and Map.delete(key) on the keys of a Map, which a Map
\* keeps in insertion order: a key that is present keeps its place
MapSet(keys, k) == IF k \in Range(keys) THEN keys ELSE Append(keys, k)
MapDelete(keys, k) == Without(keys, k)

\* an input payload that is absent (lastProcessedInput = null)
NoInput == [tick |-> -1, x |-> 0, y |-> 0, mouse |-> FALSE]

\* the fields of a PlayerState that a delta carries only when they changed
BroadcastFields == {"hp", "isBystander", "name", "isDead", "kills", "deaths"}

\* a PlayerState nobody has filled in yet
NoState ==
  [ hp |-> 0, isBystander |-> FALSE, name |-> 0, isDead |-> FALSE,
    kills |-> 0, deaths |-> 0 ]

\* lastBroadcastState = null
NoBroadcast == [set |-> FALSE, s |-> NoState]

\* the engine fields of a new Player(id, name, STARTING_X, STARTING_Y, bounds).
\*   idle            now - lastInputTimestamp > AFK_THRESHOLD_MS
\*   afkRemoveTimer  "none": undefined; "armed": the 10 s timer is pending;
\*                   "stale": the handle of a timer that was cleared or has fired
\*   afkSocket       the socket the armed timer will disconnect
FreshPhys ==
  [ x |-> Px(STARTING_X), y |-> Px(STARTING_Y), vx |-> 0, vy |-> 0,
    isOnGround |-> FALSE, isOnSurface |-> FALSE, canDoubleJump |-> TRUE,
    isJumping |-> FALSE, isShooting |-> FALSE,
    inputQueue |-> <<>>, lastProcessedInput |-> NoInput, InputDebt |-> <<>>,
    idle |-> FALSE, afkRemoveTimer |-> "none", afkSocket |-> 0,
    isDead |-> FALSE, kills |-> 0, deaths |-> 0, lastBroadcastState |-> NoBroadcast ]

\* a reset of the jump state that keeps the fall speed
resetJumpStateKeepVelocity(ph) ==
  [ph EXCEPT !.canDoubleJump = TRUE, !.isJumping = FALSE, !.isOnSurface = TRUE]

\* Player.resetJumpState
resetJumpState(ph) ==
  [ph EXCEPT !.canDoubleJump = TRUE, !.vy = 0, !.isJumping = FALSE, !.isOnSurface = TRUE]

\* gravity that pulls towards the top of the arena
applyGravityUp(ph) ==
  [ph EXCEPT !.vy = Min(@ - GRAVITY \div TICK_RATE, MAX_FALL_SPEED)]

\* Player.applyGravity(dt)
applyGravity(ph) ==
  [ph EXCEPT !.vy = Min(@ + GRAVITY \div TICK_RATE, MAX_FALL_SPEED)]

\* a jump that leaves the double jump available
jumpUnlimited(ph, vec) ==
  IF ph.isOnSurface
  THEN [ph EXCEPT !.vy = vec.y * JUMP_STRENGTH, !.canDoubleJump = TRUE,
                  !.isOnSurface = FALSE, !.isJumping = TRUE]
  ELSE IF ph.canDoubleJump
  THEN [ph EXCEPT !.vy = vec.y * JUMP_STRENGTH]
  ELSE ph

\* Player.jump(inputVector)
jump(ph, vec) ==
  IF ph.isOnSurface
  THEN [ph EXCEPT !.vy = vec.y * JUMP_STRENGTH, !.canDoubleJump = TRUE,
                  !.isOnSurface = FALSE, !.isJumping = TRUE]
  ELSE IF ph.canDoubleJump
  THEN [ph EXCEPT !.vy = vec.y * JUMP_STRENGTH, !.canDoubleJump = FALSE]
  ELSE ph

\* Player.getClampedPosition
getClampedPosition(newX, newY) ==
  [ clampedX |-> IF newX = NaN THEN NaN
                 ELSE Max(GAME_BOUNDS.left + Px(PLAYER_HALF_WIDTH),
                          Min(newX, GAME_BOUNDS.right - Px(PLAYER_HALF_WIDTH))),
    clampedY |-> Max(GAME_BOUNDS.top, Min(newY, GAME_BOUNDS.bottom)) ]

\* a platform test that sees a player only when it is exactly on the top edge
HitsPlatformExact(ph, pf) ==
  /\ ph.vy > 0
  /\ ph.x # NaN
  /\ ph.x + Px(PLAYER_HALF_WIDTH) > pf.left
  /\ ph.x - Px(PLAYER_HALF_WIDTH) < pf.right
  /\ ph.y = pf.top

\* the test of Player.checkPlatformCollisions for one platform
HitsPlatform(ph, pf) ==
  /\ ph.vy > 0
  /\ ph.x # NaN
  /\ ph.x + Px(PLAYER_HALF_WIDTH) > pf.left
  /\ ph.x - Px(PLAYER_HALF_WIDTH) < pf.right
  /\ \/ ph.y = pf.top
     \/ ph.y > pf.top /\ ph.y < pf.bottom

\* the first platform of a set of platform indices (0: none)
FirstOf(hit) == IF hit = {} THEN 0 ELSE CHOOSE i \in hit : \A j \in hit : i <= j

\* Player.checkPlatformCollisions: the first platform hit (0: none)
checkPlatformCollisions(ph) ==
  FirstOf({i \in DOMAIN platforms : HitsPlatform(ph, platforms[i])})

\* update, step 1: horizontal velocity and the shooting flag from the input
Steered(ph, vec) ==
  [ph EXCEPT !.vx = IF vec.x = Undefined THEN NaN
                    ELSE IF vec.x # 0 THEN vec.x * SPEED ELSE 0,
             !.isShooting = IF vec.mouse THEN TRUE ELSE @]

\* update: if (inputVector.y < 0) this.jump(inputVector)
Jumped(ph, vec) == IF vec.y < 0 THEN jump(ph, vec) ELSE ph

\* update, steps 2 and 3: the new position, clamped to the arena
Placed(ph, c) == [ph EXCEPT !.x = c.clampedX, !.y = c.clampedY]
Plus(a, b) == IF a = NaN \/ b = NaN THEN NaN ELSE a + b
Moved(ph) == Placed(ph, getClampedPosition(Plus(ph.x, ph.vx), ph.y + ph.vy))

\* update: the ground check
Grounded(ph) ==
  IF ph.y = GAME_BOUNDS.bottom
  THEN resetJumpState([ph EXCEPT !.isOnGround = TRUE])
  ELSE [ph EXCEPT !.isOnGround = FALSE]

\* update: the platform check; isOnSurface = isOnPlatform || isOnGround
Snapped(ph, i) ==
  IF i # 0
  THEN [resetJumpState([ph EXCEPT !.y = platforms[i].top]) EXCEPT !.isOnSurface = TRUE]
  ELSE [ph EXCEPT !.isOnSurface = ph.isOnGround]
Collided(ph) == Snapped(ph, checkPlatformCollisions(ph))

\* Player.update(inputVector, dt, localTick, scenario)
PlayerUpdate(ph, vec) ==
  Collided(Grounded(Moved(applyGravity(Jumped(Steered(ph, vec), vec)))))

\* Player.isAfk(vector)
isAfk(ph, vec) == vec.x = 0 /\ vec.y = 0 /\ ph.isOnSurface

\* ------------------------------------------------------------- the doubles
\* The accumulator is a double.  The doubles that it takes are multiples of
\* 2^-48 ms; such a double a is kept as the integers thirds and ulps with
\*   3 * a * 2^48 = thirds * 2^48 + ulps,
\* that is a = thirds / 3 ms + ulps / 3 * 2^-48 ms, with ulps small.  A whole
\* number n of ms is (3 * n, 0); 1000 / 60 is the double 16.666666666666668,
\* one third of 2^-48 above 50 / 3.
ULP_EXPONENT == 48
Ms(n) == 3 * n
Double(n) == [thirds |-> Ms(n), ulps |-> 0]

RECURSIVE PowMod(_, _, _)
PowMod(b, k, n) == IF k = 0 THEN 1 % n ELSE (b * PowMod(b, k - 1, n)) % n

\* a >= b on doubles
Geq(a, b) == a.thirds > b.thirds \/ (a.thirds = b.thirds /\ a.ulps >= b.ulps)

\* the distance between neighbouring doubles at the real number a, in units
\* of 2^-48: 1 below 32, 2 in [32, 64), 4 in [64, 128), ...
RECURSIVE Spacing(_, _, _)
Spacing(a, g, k) == IF Geq(a, Double(k)) THEN Spacing(a, 2 * g, 2 * k) ELSE g

\* a * 2^48 modulo n
Residue(a, n) ==
  ((a.thirds * PowMod(2, ULP_EXPONENT, 3 * n) + a.ulps) % (3 * n)) \div 3

\* the way from r to the nearest multiple of g, to the multiple of 2 * g when
\* two are equally near (round to nearest, ties to even)
Nearest(r, g) ==
  IF r % g = 0 THEN 0
  ELSE IF 2 * (r % g) < g THEN - (r % g)
  ELSE IF 2 * (r % g) > g THEN g - (r % g)
  ELSE IF r < g THEN - (r % g) ELSE g - (r % g)

\* the double nearest to the real number a, on the grid of spacing g
Rounded(a, g) == [a EXCEPT !.ulps = @ + 3 * Nearest(Residue(a, 2 * g), g)]
RoundDouble(a) == Rounded(a, Spacing(a, 1, 32))

\* a + n for a whole number n, and a - b, as the doubles compute them
AddMs(a, n) == RoundDouble([a EXCEPT !.thirds = @ + Ms(n)])
Minus(a, b) == RoundDouble([thirds |-> a.thirds - b.thirds, ulps |-> a.ulps - b.ulps])

\* accumulator and serverTick of a new Match
NoClock == [accumulator |-> Double(0), serverTick |-> 0]

\* history of one Player object:
\*   sent      payloads the client has sent to it
\*   consumed  <<serverTick, payload tick>> of every payload dequeued, in order
\*   trace     the fixed steps of the latest Match.update, one record each
\*   phase, k, n, ref   the prediction episode under way: k predictive steps
\*             from the state ref0, then n real inputs equal to the predicted
\*             vector; ref is the run that applies those n inputs with no
\*             prediction
\*   spared    a projectileHit against it, sent after a fixed step had dequeued
\*             one of its payloads, was ignored because it is a bystander
\*   answered  a playerInput arrived after the latest afkWarning, while the
\*             10 s timer was pending
\*   window    payloads queued for it in the current window of 1000 ms
\*   deltas    getLatestStateDelta calls so far
\*   fold      what a client holds that overwrote its copy with the fields of
\*             every delta, in order
NoPlayerHist ==
  [ sent |-> 0, consumed |-> <<>>, trace |-> <<>>,
    phase |-> "none", k |-> 0, n |-> 0, ref |-> FreshPhys, spared |-> FALSE,
    answered |-> FALSE, window |-> 0, deltas |-> 0,
    fold |-> [f \in BroadcastFields |-> [has |-> FALSE, v |-> NoState[f]]] ]

\* history of one Match object:
\*   steps  fixed steps run (updatePhysics calls)
\*   bc     broadcasts so far (saturating at 2), serverTick of the latest and
\*          of the one before, fixed steps between the two
\*   resets, tickAtReset   resetMatch ran, and the serverTick it ran at
\*   healed  a player of the world had lost hp when resetMatch ran
\*   overs   a gameOver was emitted
\*   since   resetMatch runs since the latest gameOver (saturating at 2); 1
\*           before the first gameOver
\*   seen       the projectiles (owner, id) that a broadcast has carried
\*   again      those of the latest broadcast that an earlier one had carried
\*   cancelled  the timers that were pending when cleanUpSession ran
\*   go         gameOver emissions since the latest resetMatch (saturating at 2)
\*   pending    setTimeout(resetMatch) calls whose timer has neither fired nor
\*              been cleared (saturating at 2)
\*   newKill    a kill was credited since the latest resetMatch
\*   cleaned    cleanUpSession has run
NoTimers == [respawn |-> FALSE, grace |-> FALSE, reset |-> FALSE, afk |-> FALSE]
NoMatchHist ==
  [ steps |-> 0, atBc |-> 0, bc |-> 0, cur |-> 0, prev |-> 0, between |-> 0,
    resets |-> 0, tickAtReset |-> 0, healed |-> FALSE, overs |-> FALSE, since |-> 1,
    seen |-> {}, again |-> {}, cancelled |-> NoTimers,
    go |-> 0, pending |-> 0, newKill |-> FALSE, cleaned |-> FALSE ]

NoHist == [pl |-> [p \in PlayerIds |-> NoPlayerHist],
           ma |-> [m \in MatchIds |-> NoMatchHist]]

VARIABLES
  sock,      \* session of each socket: "new", "open", "closed"
  joinL,     \* socket still has the gateway's joinQueue listener
  hdl,       \* match and player the socket's match handlers are bound to
  first,     \* per socket: which of matchFound / stateUpdate it received first
  matches,   \* Matchmaker.matches: the Match objects in the insertion order of their ids
  nextId,    \* number of Match objects constructed so far
  disconnectedPlayers,  \* Matchmaker.disconnectedPlayers: playerMatchId -> matchId (0: none)
  showisLive,  \* Matchmaker.showisLive
  mt,        \* the Match objects
  expired,   \* history: players removed by a grace-period expiry, and their ids
  phys,      \* the engine fields of each Player object
  clock,     \* accumulator and serverTick of each Match object
  hist       \* history: what the fixed steps and broadcasts did

vars == <<sock, joinL, hdl, first, matches, nextId, disconnectedPlayers, showisLive, mt,
          expired, phys, clock, hist>>

\* The whole program state as one value, so that a handler's sequential
\* statements compose as functions on it.  out collects, in order, the events
\* the handler emits to open sessions, as <<socket, event>>.
St ==
  [ sock |-> sock, joinL |-> joinL, hdl |-> hdl, out |-> <<>>, first |-> first,
    matches |-> matches,
    nextId |-> nextId, disc |-> disconnectedPlayers, showisLive |-> showisLive, mt |-> mt,
    expired |-> expired,
    phys |-> phys, clock |-> clock, hist |-> hist ]

\* players.delete(id) with destroy() empties the Player object's queues and
\* drops it: a player that is not in the world has no engine fields
SyncPlayers(t) ==
  [p \in PlayerIds |->
     IF mt[p[2]].players[p].in /\ ~ t.mt[p[2]].players[p].in THEN FreshPhys ELSE t.phys[p]]

\* the histories of a player end with its Player object
SyncHist(t) ==
  [t.hist EXCEPT !.pl = [p \in PlayerIds |->
     IF mt[p[2]].players[p].in /\ ~ t.mt[p[2]].players[p].in THEN NoPlayerHist ELSE @[p]]]

Commit(t) ==
  /\ sock' = t.sock
  /\ joinL' = t.joinL
  /\ hdl' = t.hdl
  /\ first' = t.first
  /\ matches' = t.matches
  /\ nextId' = t.nextId
  /\ disconnectedPlayers' = t.disc
  /\ showisLive' = t.showisLive
  /\ mt' = t.mt
  /\ expired' = t.expired
  /\ phys' = SyncPlayers(t)
  /\ clock' = t.clock
  /\ hist' = SyncHist(t)

\* this.matches.get(id): the Match object registered under id (0: none)
Registered(t, id) ==
  IF \E m \in Range(t.matches) : t.mt[m].id = id
  THEN CHOOSE m \in Range(t.matches) : t.mt[m].id = id
  ELSE 0

\* the keys of this.matches after this.matches.set(t.mt[m].id, m): an id that
\* is present keeps its place and gets the new Match object
MatchesSet(t, m, old) ==
  IF old = 0 THEN Append(t.matches, m)
  ELSE [i \in DOMAIN t.matches |-> IF t.matches[i] = old THEN m ELSE t.matches[i]]

\* the playerMatchId of the Player object p of Match object m
Pid(t, m, p) == PlayerMatchId(p[1], t.mt[m].id)

\* this.worldState.players.get(pid) of Match object m finds a player
Holds(t, m, pid) == t.mt[m].id = pid[2] /\ t.mt[m].players[Key(pid[1], m)].in

\* socket.emit(e): an open session receives the event
Emit(t, s, e) ==
  IF t.sock[s] = "open"
  THEN [t EXCEPT !.out = Append(@, <<s, e>>),
                 !.first[s] = IF @ = "none" /\ e \in OrderedEvents THEN e ELSE @]
  ELSE t

\* for (const socket of this.sockets) socket.emit(e)
RECURSIVE EmitAll(_, _, _)
EmitAll(t, sockets, e) ==
  IF sockets = <<>> THEN t
  ELSE EmitAll(Emit(t, Head(sockets), e), Tail(sockets), e)

\* this.worldState.players.set(id, new Player(id, name, STARTING_X, STARTING_Y,
\* GAME_BOUNDS)): a new Player object under the key id
SetPlayer(t, m, p, player) ==
  [t EXCEPT !.mt[m].players[p] = player,
            !.mt[m].keys = MapSet(@, p),
            !.phys[p] = FreshPhys,
            !.hist.pl[p] = NoPlayerHist]

\* this.worldState.players.delete(id)
DeletePlayer(t, m, p) ==
  [t EXCEPT !.mt[m].players[p] = NoPlayer, !.mt[m].keys = MapDelete(@, p)]

\* ------------------------------------------------------------- Matchmaker
setDisconnectedPlayer(t, pid, id) == [t EXCEPT !.disc[pid] = id]

removeDisconnectedPlayer(t, pid) == [t EXCEPT !.disc[pid] = 0]

\* variant: counts the players of the world instead of the score board
getNumberOfPlayersInWorld(mr) == Cardinality({p \in PlayerIds : mr.players[p].in})

getNumberOfPlayers(mr) == Cardinality({p \in PlayerIds : mr.playerScores[p].in})

getPlayerIds(mr) == {p \in PlayerIds : mr.playerScores[p].in}

WorldPlayers(mr) == {p \in PlayerIds : mr.players[p].in}

\* variant: the capacity test without the region test
HasSpaceAnyRegion(t, m, region) ==
  getNumberOfPlayers(t.mt[m]) < MAX_PLAYERS_PER_MATCH

HasSpace(t, m, region) ==
  /\ t.mt[m].region = region
  /\ getNumberOfPlayers(t.mt[m]) < MAX_PLAYERS_PER_MATCH

\* first index of the registry whose match has the region and space (0: none)
FirstFit(t, region) ==
  LET idx == {i \in DOMAIN t.matches : HasSpace(t, t.matches[i], region)}
  IN IF idx = {} THEN 0
     ELSE t.matches[CHOOSE i \in idx : \A j \in idx : i <= j]

findMatchInRegion(t, region, pmid) ==
  IF pmid # NoPid /\ t.disc[pmid] # 0 /\ Registered(t, t.disc[pmid]) # 0
  THEN [match |-> Registered(t, t.disc[pmid]), disconnectedPlayer |-> TRUE]
  ELSE [match |-> FirstFit(t, region), disconnectedPlayer |-> FALSE]

\* ------------------------------------------------------------------ Match
\* this.setDisconnectedPlayerCallback(playerId, this.id, timeout) and
\* this.removeDisconnectedPlayerCallback(playerId): the Matchmaker's methods
\* the constructor was given, or nothing once cleanUpSession replaced them
setDisconnectedPlayerCallback(t, m, pid) ==
  IF t.mt[m].callbacks THEN setDisconnectedPlayer(t, pid, t.mt[m].id) ELSE t

removeDisconnectedPlayerCallback(t, m, pid) ==
  IF t.mt[m].callbacks THEN removeDisconnectedPlayer(t, pid) ELSE t

setUpPlayerSocketHandlers(t, m, s) ==
  LET p == t.mt[m].s2p[s]
  IN IF p = NoPid
     THEN [t EXCEPT !.hdl[s] = NoHandler]
     ELSE [t EXCEPT !.hdl[s] = [m |-> m, p |-> p]]

removePlayerFromGameState(t, m, p, s) ==
  LET t1 == removeDisconnectedPlayerCallback(t, m, Pid(t, m, p))
      t2 == [DeletePlayer(t1, m, p) EXCEPT
                       !.mt[m].respawnQueue = MapDelete(@, p),
                       !.mt[m].playerScores[p] = NoScore,
                       !.mt[m].s2p[s] = NoPid,
                       !.mt[m].p2s[p] = 0,
                       !.expired = IF t.mt[m].playerScores[p].in
                                    THEN @ \cup {[p |-> p, id |-> Pid(t, m, p)]}
                                    ELSE @]
  IN IF WorldPlayers(t2.mt[m]) = {}
     THEN [t2 EXCEPT !.mt[m].shouldRemove = TRUE]
     ELSE t2

handlePlayerDisconnect(t, m, s, p) ==
  IF ~ t.mt[m].players[p].in
  THEN t
  ELSE LET t1 == [t EXCEPT !.mt[m].graceTimers = @ \cup {[p |-> p, s |-> s]}]
           t2 == setDisconnectedPlayerCallback(t1, m, Pid(t, m, p))
       IN [t2 EXCEPT !.mt[m].players[p].dc = TRUE,
                     !.hdl[s] = NoHandler,
                     !.joinL[s] = FALSE,
                     !.mt[m].sockets = Without(@, s)]

\* The session of s ends (the client closes it, or socket.disconnect(true)):
\* the 'disconnect' listeners run.
CloseSocket(t, s) ==
  IF t.sock[s] # "open"
  THEN t
  ELSE LET t1 == [t EXCEPT !.sock[s] = "closed", !.joinL[s] = FALSE, !.hdl[s] = NoHandler]
       IN IF t.hdl[s] = NoHandler
          THEN t1
          ELSE handlePlayerDisconnect(t1, t.hdl[s].m, s, t.hdl[s].p)

addPlayer(t, m, s) ==
  IF s \in Range(t.mt[m].sockets)
  THEN t
  ELSE LET p == Key(s, m)
           t1 == [SetPlayer(t, m, p, NewPlayer) EXCEPT
                           !.mt[m].sockets = Append(@, s),
                           !.mt[m].s2p[s] = p,
                           !.mt[m].p2s[p] = s,
                           !.mt[m].playerScores[p] = [kills |-> 0, deaths |-> 0, in |-> TRUE]]
           t2 == setUpPlayerSocketHandlers(t1, m, s)
       IN Emit(t2, s, "stateUpdate")

\* match.rejoinPlayer(socket, playerMatchId): returns the state and whether it
\* threw.  The Matchmaker passes no timeoutId, so clearTimeout(timeoutId) and
\* timeoutIds.delete(timeoutId) get undefined and cancel nothing: the grace
\* timer that the player's disconnect started stays pending.  The socket is
\* pushed without a test for its presence.
rejoinPlayer(t, m, s, pid) ==
  IF ~ Holds(t, m, pid)
  THEN [st |-> removeDisconnectedPlayerCallback(CloseSocket(Emit(t, s, "error"), s), m, pid),
        threw |-> TRUE]
  ELSE LET t1 == [t EXCEPT !.mt[m].players[Key(pid[1], m)].dc = FALSE,
                           !.mt[m].sockets = Append(@, s),
                           !.mt[m].s2p[s] = Key(pid[1], m),
                           !.mt[m].p2s[Key(pid[1], m)] = s]
           t2 == removeDisconnectedPlayerCallback(t1, m, pid)
       IN [st |-> setUpPlayerSocketHandlers(t2, m, s), threw |-> FALSE]

\* new Match(socket, name, region, matchId, ...)
NewMatch(t, m, s, region, id) ==
  LET t1 == [t EXCEPT !.mt[m] = [NoMatch EXCEPT !.region = region, !.id = id,
                                                !.callbacks = TRUE]]
      t2 == addPlayer(t1, m, s)
  IN [t2 EXCEPT !.mt[m].isReady = TRUE, !.mt[m].matchIsActive = TRUE]

\* id is the string that generateMatchId returns if it is called
enqueuePlayer(t, s, region, pmid, id) ==
  LET f == findMatchInRegion(t, region, pmid)
  IN IF f.match # 0
     THEN IF ~ f.disconnectedPlayer
          THEN Emit(addPlayer(t, f.match, s), s, "matchFound")
          ELSE LET r == rejoinPlayer(t, f.match, s, pmid)
               IN IF r.threw
                  THEN CloseSocket(Emit(r.st, s, "error"), s)
                  ELSE removeDisconnectedPlayer(Emit(r.st, s, "rejoinedMatch"), pmid)
     ELSE LET m == t.nextId + 1
              t1 == NewMatch([t EXCEPT !.nextId = m], m, s, region, id)
              t2 == [t1 EXCEPT !.matches = MatchesSet(t1, m, Registered(t1, id))]
          IN Emit(t2, s, "matchFound")

\* ------------------------------------------------------------ Match: combat
handleToggleBystander(t, m, p) ==
  IF ~ t.mt[m].players[p].in
  THEN t
  ELSE [t EXCEPT !.mt[m].players[p].by = FALSE]

\* new Player(...) followed by setIsBystander(false)
RespawnedPlayer == [NewPlayer EXCEPT !.by = FALSE]

scheulePlayerRespawn(t, m, p) ==
  [t EXCEPT !.mt[m].respawnQueue = MapSet(@, p),
            !.mt[m].respawnTimers = @ \cup {p}]

\* the callback of the timer of scheulePlayerRespawn
respawnPlayer(t, m, p) ==
  IF p \notin Range(t.mt[m].respawnQueue)
  THEN t
  ELSE SetPlayer([t EXCEPT !.mt[m].respawnQueue = MapDelete(@, p)], m, p, RespawnedPlayer)

\* sortedScores[0].kills >= MAX_KILL_AMOUNT
HasWinner(mr) ==
  \E p \in PlayerIds : mr.playerScores[p].in /\ mr.playerScores[p].kills >= MAX_KILL_AMOUNT

\* for (const id of this.timeoutIds) clearTimeout(id): the AFK timers of the
\* match are cancelled too; each player keeps the handle in afkRemoveTimer
ClearedAfkTimers(ph, m) ==
  [p \in PlayerIds |->
     IF p[2] = m /\ ph[p].afkRemoveTimer = "armed"
     THEN [ph[p] EXCEPT !.afkRemoveTimer = "stale"]
     ELSE ph[p]]

\* for (const [playerId, playerName] of this.respawnQueue): a new Player, no
\* bystander, is set into the world for every queued player, in queue order
RECURSIVE RespawnAll(_, _, _)
RespawnAll(t, m, queue) ==
  IF queue = <<>> THEN t
  ELSE RespawnAll(SetPlayer(t, m, Head(queue), RespawnedPlayer), m, Tail(queue))

\* checkWinCondition when sortedScores[0] has won, up to the gameOver: the
\* timers of timeoutIds are cleared and the queued players respawn
Finished(t, m) ==
  RespawnAll([t EXCEPT !.mt[m].matchIsActive = FALSE,
                       !.mt[m].respawnTimers = {},
                       !.mt[m].graceTimers = {},
                       !.phys = ClearedAfkTimers(@, m)],
             m, t.mt[m].respawnQueue)

\* the body of checkWinCondition when sortedScores[0] has won: gameOver is
\* emitted, the respawn queue is cleared and resetMatch is scheduled unless a
\* matchResetTimeout is set
EndRound(t, m) ==
  [EmitAll(Finished(t, m), t.mt[m].sockets, "gameOver") EXCEPT
     !.mt[m].respawnQueue = <<>>,
     !.mt[m].matchResetTimeout = TRUE,
     !.hist.ma[m].overs = TRUE,
     !.hist.ma[m].since = 0,
     !.hist.ma[m].go = Min(@ + 1, 2),
     !.hist.ma[m].pending = IF t.mt[m].matchResetTimeout THEN 0 ELSE Min(@ + 1, 2)]

\* a checkWinCondition that ends the round and schedules no reset
checkWinConditionUnscheduled(t, m) ==
  IF ~ t.mt[m].matchIsActive \/ t.mt[m].matchResetTimeout
  THEN t
  ELSE IF ~ HasWinner(t.mt[m])
  THEN t
  ELSE [EndRound(t, m) EXCEPT !.mt[m].matchResetTimeout = FALSE,
                              !.hist.ma[m].pending = t.hist.ma[m].pending]

\* a checkWinCondition that also runs while the match awaits its reset
checkWinConditionUnguarded(t, m) ==
  IF ~ HasWinner(t.mt[m]) THEN t ELSE EndRound(t, m)

checkWinCondition(t, m) ==
  IF ~ t.mt[m].matchIsActive \/ t.mt[m].matchResetTimeout
  THEN t
  ELSE IF ~ HasWinner(t.mt[m])
  THEN t
  ELSE EndRound(t, m)

handlePlayerDeath(t, m, victim, killer) ==
  LET mr == t.mt[m]
      t1 == [DeletePlayer(t, m, victim) EXCEPT
                      !.mt[m].playerScores[victim].deaths =
                          IF mr.playerScores[victim].in THEN @ + 1 ELSE @]
      t2 == IF t1.mt[m].playerScores[killer].in
            THEN checkWinCondition([t1 EXCEPT !.mt[m].playerScores[killer].kills = @ + 1,
                                              !.hist.ma[m].newKill = TRUE], m)
            ELSE t1
  IN scheulePlayerRespawn(t2, m, victim)

\* Player.damage(amount), Player.heal(amount)
damage(hp, amount) == IF hp - amount > 0 THEN hp - amount ELSE 0
heal(hp, amount) == Min(MAX_HP, hp + amount)

\* the damage of a hit, and the death that follows when hp reaches 0
Damaged(t, m, shooter, target) ==
  IF t.mt[m].players[target].hp <= 0
  THEN handlePlayerDeath(t, m, target, shooter)
  ELSE t

\* a handleCollision that damages bystanders too
handleCollisionAll(t, m, shooter, target) ==
  Damaged([t EXCEPT !.mt[m].players[target].hp = damage(@, DAMAGE)], m, shooter, target)

handleCollision(t, m, shooter, target) ==
  IF t.mt[m].players[target].by
  THEN [t EXCEPT !.hist.pl[target].spared = @ \/ t.hist.pl[target].consumed # <<>>]
  ELSE LET t1 == [t EXCEPT !.mt[m].players[target].hp = damage(@, DAMAGE)]
       IN IF t1.mt[m].players[target].hp <= 0
          THEN handlePlayerDeath(t1, m, target, shooter)
          ELSE t1

handleProjectileHit(t, m, p, enemyId) ==
  IF ~ t.mt[m].players[p].in \/ ~ Holds(t, m, enemyId)
  THEN t
  ELSE handleCollision(t, m, p, Key(enemyId[1], m))

\* a resetMatch that also starts the server tick again
resetMatchAndTick(t, m) ==
  LET mr == t.mt[m]
      t1 == [t EXCEPT
               !.mt[m].matchResetTimeout = FALSE,
               !.mt[m].projectiles = <<>>,
               !.mt[m].players = [p \in PlayerIds |->
                   IF mr.players[p].in THEN [mr.players[p] EXCEPT !.hp = MAX_HP]
                   ELSE mr.players[p]],
               !.mt[m].playerScores = [p \in PlayerIds |->
                   IF mr.players[p].in THEN [kills |-> 0, deaths |-> 0, in |-> TRUE]
                   ELSE mr.playerScores[p]],
               !.clock[m].serverTick = 0]
      t2 == EmitAll(t1, mr.sockets, "matchReset")
  IN [t2 EXCEPT !.mt[m].matchIsActive = TRUE]

\* a resetMatch that puts the players back into bystander mode
resetMatchBystanders(t, m) ==
  LET mr == t.mt[m]
      t1 == [t EXCEPT
               !.mt[m].matchResetTimeout = FALSE,
               !.mt[m].projectiles = <<>>,
               !.mt[m].players = [p \in PlayerIds |->
                   IF mr.players[p].in THEN [mr.players[p] EXCEPT !.hp = MAX_HP, !.by = TRUE]
                   ELSE mr.players[p]],
               !.mt[m].playerScores = [p \in PlayerIds |->
                   IF mr.players[p].in THEN [kills |-> 0, deaths |-> 0, in |-> TRUE]
                   ELSE mr.playerScores[p]]]
      t2 == EmitAll(t1, mr.sockets, "matchReset")
  IN [t2 EXCEPT !.mt[m].matchIsActive = TRUE]

resetMatch(t, m) ==
  LET mr == t.mt[m]
      t1 == [t EXCEPT
               !.mt[m].matchResetTimeout = FALSE,
               !.mt[m].projectiles = <<>>,
               !.mt[m].players = [p \in PlayerIds |->
                   IF mr.players[p].in THEN [mr.players[p] EXCEPT !.hp = MAX_HP]
                   ELSE mr.players[p]],
               !.mt[m].playerScores = [p \in PlayerIds |->
                   IF mr.players[p].in THEN [kills |-> 0, deaths |-> 0, in |-> TRUE]
                   ELSE mr.playerScores[p]]]
      t2 == EmitAll(t1, mr.sockets, "matchReset")
  IN [t2 EXCEPT !.mt[m].matchIsActive = TRUE]

\* ------------------------------------------------------ driver and reaping
\* the timers of match m that are pending: respawn, grace period, match
\* reset, and the AFK timers of its players
PendingTimers(t, m) ==
  [respawn |-> t.mt[m].respawnTimers # {}, grace |-> t.mt[m].graceTimers # {},
   reset |-> t.mt[m].matchResetTimeout,
   afk |-> \E p \in PlayerIds : p[2] = m /\ t.phys[p].afkRemoveTimer = "armed"]

\* history: cleanUpSession ran on match m in state t
CleanUpNoted(h, t, m) ==
  [h EXCEPT !.ma[m].cleaned = TRUE,
            !.ma[m].cancelled = [k \in DOMAIN NoTimers |-> @[k] \/ PendingTimers(t, m)[k]]]

\* socket.removeAllListeners() for every socket of this.sockets: the
\* listeners of the match and the joinQueue listener of the gateway
ListenersRemoved(t, S) ==
  [t EXCEPT !.joinL = [s \in Sockets |-> IF s \in S THEN FALSE ELSE @[s]],
            !.hdl = [s \in Sockets |-> IF s \in S THEN NoHandler ELSE @[s]]]

\* player.destroy() for every player of the world: its AFK timer is cleared
\* and its queues are emptied; the Player objects are dropped
PlayersDestroyed(t, m) ==
  [t EXCEPT !.phys = [p \in PlayerIds |-> IF t.mt[m].players[p].in THEN FreshPhys ELSE @[p]]]

\* a cleanUpSession that leaves the respawn timers running
cleanUpSessionKeepRespawns(t, m) ==
  [PlayersDestroyed(ListenersRemoved(t, Range(t.mt[m].sockets)), m) EXCEPT
     !.mt[m].graceTimers = {},
     !.mt[m].matchResetTimeout = FALSE,
     !.mt[m].players = [p \in PlayerIds |-> NoPlayer],
     !.mt[m].keys = <<>>,
     !.mt[m].projectiles = <<>>,
     !.mt[m].playerScores = [p \in PlayerIds |-> NoScore],
     !.mt[m].s2p = [s \in Sockets |-> NoPid],
     !.mt[m].p2s = [p \in PlayerIds |-> 0],
     !.mt[m].respawnQueue = <<>>,
     !.mt[m].callbacks = FALSE,
     !.hist = CleanUpNoted(@, t, m)]

\* Match.cleanUpSession: the timers of timeoutIds and the matchResetTimeout
\* are cleared, the listeners of the sockets of this.sockets are removed, the
\* players and projectiles are destroyed, the maps are cleared and the two
\* Matchmaker callbacks are replaced by no-ops.  The array this.sockets, id,
\* region, isReady, shouldRemove, matchIsActive, the accumulator and
\* serverTick keep their values.
cleanUpSession(t, m) ==
  [PlayersDestroyed(ListenersRemoved(t, Range(t.mt[m].sockets)), m) EXCEPT
     !.mt[m].respawnTimers = {},
     !.mt[m].graceTimers = {},
     !.mt[m].matchResetTimeout = FALSE,
     !.mt[m].players = [p \in PlayerIds |-> NoPlayer],
     !.mt[m].keys = <<>>,
     !.mt[m].projectiles = <<>>,
     !.mt[m].playerScores = [p \in PlayerIds |-> NoScore],
     !.mt[m].s2p = [s \in Sockets |-> NoPid],
     !.mt[m].p2s = [p \in PlayerIds |-> 0],
     !.mt[m].respawnQueue = <<>>,
     !.mt[m].callbacks = FALSE,
     !.hist = CleanUpNoted(@, t, m)]

RECURSIVE RemoveAll(_, _)
RemoveAll(t, P) ==
  IF P = {} THEN t
  ELSE LET p == CHOOSE q \in P : TRUE
       IN RemoveAll(removeDisconnectedPlayer(t, p), P \ {p})

\* the ids of the players on the score board of match m
ScoreIds(t, m) == {Pid(t, m, p) : p \in getPlayerIds(t.mt[m])}

removeMatch(t, m) ==
  IF Registered(t, t.mt[m].id) = 0
  THEN t
  ELSE LET t1 == RemoveAll(t, ScoreIds(t, m))
           t2 == [t1 EXCEPT !.matches = Without(@, Registered(t, t.mt[m].id))]
       IN cleanUpSession(t2, m)

\* for (const match of this.matches.values()) match.cleanUpSession()
RECURSIVE CleanUpAll(_, _)
CleanUpAll(t, todo) ==
  IF todo = <<>> THEN t
  ELSE CleanUpAll(cleanUpSession(t, Head(todo)), Tail(todo))

\* Matchmaker.shutdown: every match is cleaned up, the registry and the
\* disconnected index are cleared; the sessions stay open
shutdown(t) ==
  [CleanUpAll(t, t.matches) EXCEPT !.matches = <<>>,
                                   !.disc = [pid \in PlayerMatchIds |-> 0]]

broadcastGameState(t, m) == EmitAll(t, t.mt[m].sockets, "stateUpdate")

\* ------------------------------------------------- Match: the fixed step
FIXED_STEP == 50           \* 1000 / TICK_RATE as a real number, in thirds of a ms
MAX_FRAME_TIME == 100      \* Math.min(frameTime, 100)

\* MIN_MS_BETWEEN_TICKS = 1000 / this.TICK_RATE, the double
MIN_MS_BETWEEN_TICKS == [thirds |-> FIXED_STEP, ulps |-> 1]

\* the vectors a client sends and the frame times (ms) between loop passes
InputVectors ==
  { [x |-> 0, y |-> 0, mouse |-> FALSE], [x |-> -1, y |-> 0, mouse |-> FALSE],
    [x |-> 1, y |-> -1, mouse |-> TRUE] }
FrameTimes == {34, 250}
LifeFrameTimes == {34}
PlacementFrameTimes == {34}
LongFrameTimes == {250}
RoundFrameTimes == {17}
RoundVectors == {v \in InputVectors : v.x # 0}
AfkFrameTimes == {34}
ShotFrameTimes == {17, 34}

\* the vectors of a client that stands still or walks, and shoots
ShotVectors ==
  { [x |-> 0, y |-> 0, mouse |-> TRUE], [x |-> -1, y |-> 0, mouse |-> FALSE] }

Vec(i) == [x |-> i.x, y |-> i.y, mouse |-> i.mouse]

\* Player.queueInput: the payload is appended, lastInputTimestamp = now
queueInput(ph, input) == [ph EXCEPT !.inputQueue = Append(@, input), !.idle = FALSE]

\* Player.dequeueInput left the payload at the head of the queue in place
dequeueInputKeep(ph) ==
  IF ph.inputQueue = <<>>
  THEN [has |-> FALSE, input |-> NoInput, ph |-> ph]
  ELSE [has |-> TRUE, input |-> Head(ph.inputQueue), ph |-> ph]

\* Player.dequeueInput: inputQueue.shift()
dequeueInput(ph) ==
  IF ph.inputQueue = <<>>
  THEN [has |-> FALSE, input |-> NoInput, ph |-> ph]
  ELSE [has |-> TRUE, input |-> Head(ph.inputQueue),
        ph |-> [ph EXCEPT !.inputQueue = Tail(@)]]

addInputDebt(ph, v) == [ph EXCEPT !.InputDebt = Append(@, v)]
peekInputDebt(ph) == ph.InputDebt[Len(ph.InputDebt)]
popInputDebt(ph) == [ph EXCEPT !.InputDebt = SubSeq(@, 1, Len(@) - 1)]
clearInputDebt(ph) == [ph EXCEPT !.InputDebt = <<>>]

\* the last processed vector as it was stored
PredictedVectorRaw(last) ==
  [x |-> IF last = NoInput THEN Undefined ELSE last.x, y |-> last.y, mouse |-> last.mouse]

\* lastProcessedInput?.vector ?? new Vector2(0, 0), then y = 0, mouse = undefined
PredictedVector(last) ==
  [x |-> IF last = NoInput THEN Undefined ELSE last.x, y |-> 0, mouse |-> FALSE]

\* Match.handlePlayerShooting: the shooting flag is reset; a projectile is
\* pushed when the payload carries a mouse target and the player is no bystander
handlePlayerShooting(ph, input, by) ==
  [ph |-> [ph EXCEPT !.isShooting = FALSE], shot |-> input.mouse /\ ~ by]

\* if (player.isShootingActive() && payload) this.handlePlayerShooting(player, payload)
Fired(ph, payload, input, by) ==
  IF ph.isShooting /\ payload
  THEN handlePlayerShooting(ph, input, by)
  ELSE [ph |-> ph, shot |-> FALSE]

\* if (player.isAfk(vector) === false) player.addInputDebt(vector)
Owed(ph, v) == IF ~ isAfk(ph, v) THEN addInputDebt(ph, v) ELSE ph

\* lastProcessedInput?.tick ? lastProcessedInput.tick + 1 : 0
NextTick(last) == IF last # NoInput /\ last.tick # 0 THEN last.tick + 1 ELSE 0

\* what one pass of the loop of integratePlayerInputs did to a player
StepResult(sh, kind, vec, setLast, last) ==
  [ph |-> IF setLast THEN [sh.ph EXCEPT !.lastProcessedInput = last] ELSE sh.ph,
   kind |-> kind, vec |-> vec, shot |-> sh.shot]

\* the no-payload branch for the predicted vector v
Predicted(ph, by, last, v) ==
  StepResult(
    Fired(PlayerUpdate(Owed(ph, v), v), last # NoInput,
          [tick |-> last.tick, x |-> v.x, y |-> v.y, mouse |-> v.mouse], by),
    "A", v, TRUE,
    [tick |-> NextTick(last), x |-> v.x, y |-> v.y, mouse |-> v.mouse])

\* integratePlayerInputs, no payload: a predicted step (scenario 'A')
PredictedStep(ph, by) ==
  Predicted(ph, by, ph.lastProcessedInput, PredictedVector(ph.lastProcessedInput))

\* a payload whose vector equals the debt top is applied once more
PayloadStepNoSkip(ph, input, by) ==
  StepResult(
    Fired(PlayerUpdate(IF ph.InputDebt # <<>> THEN popInputDebt(ph) ELSE ph, Vec(input)),
          TRUE, input, by),
    "B", Vec(input), TRUE, input)

\* a payload that differs from the debt top leaves the debt in place
PayloadStepKeepDebt(ph, input, by) ==
  StepResult(Fired(PlayerUpdate(ph, Vec(input)), TRUE, input, by),
             "B", Vec(input), TRUE, input)

\* the branch a dequeued payload takes: 'B' (no debt), skip (the payload
\* equals the debt top) or 'C' (it differs)
Scenario(ph, input) ==
  IF ph.InputDebt = <<>> THEN "B"
  ELSE IF peekInputDebt(ph).x = input.x /\ peekInputDebt(ph).y = input.y
  THEN "skip" ELSE "C"

\* the payload branch for a scenario
Applied(ph, input, kind) ==
  CASE kind = "B" -> PlayerUpdate(ph, Vec(input))
    [] kind = "skip" -> popInputDebt(ph)
    [] kind = "C" -> PlayerUpdate(clearInputDebt(ph), Vec(input))

Payload(ph, input, by, kind) ==
  StepResult(Fired(Applied(ph, input, kind), TRUE, input, by),
             kind, IF kind = "skip" THEN Vec(NoInput) ELSE Vec(input),
             kind # "skip", input)

\* integratePlayerInputs, a payload was dequeued
PayloadStep(ph, input, by) == Payload(ph, input, by, Scenario(ph, input))

\* the record of one fixed step of a player: the state before, the payload
\* dequeued (if any) and the outcome
StepRecord(ph, d, r, by) ==
  [ph |-> r.ph, kind |-> r.kind, vec |-> r.vec, shot |-> r.shot,
   has |-> d.has, input |-> d.input, before |-> ph, by |-> by]

Dequeued(ph, d, by) ==
  StepRecord(ph, d, IF d.has THEN PayloadStep(d.ph, d.input, by) ELSE PredictedStep(d.ph, by), by)

\* integratePlayerInputs for one player: max = 1 pass of the loop
IntegratePlayer(ph, by) == Dequeued(ph, dequeueInput(ph), by)

\* the prediction episode after one more fixed step: predictive steps that
\* start with no debt open an episode; real inputs equal to the predicted
\* vector continue it until as many were consumed as steps were predicted
Episode(h, r) ==
     IF r.kind = "A"
     THEN IF h.phase = "pred" THEN [h EXCEPT !.k = @ + 1]
          ELSE IF r.before.InputDebt = <<>>
          THEN [h EXCEPT !.phase = "pred", !.k = 1, !.n = 0, !.ref = r.before]
          ELSE [h EXCEPT !.phase = "none"]
     ELSE IF /\ h.phase \in {"pred", "real"}
             /\ Vec(r.input) = PredictedVector(r.before.lastProcessedInput)
             /\ h.n < h.k
     THEN [h EXCEPT !.phase = "real", !.n = @ + 1, !.ref = PlayerUpdate(@, Vec(r.input))]
     ELSE [h EXCEPT !.phase = "none"]

\* the history of a player after one more fixed step at server tick tick
StepHist(h, r, tick) ==
  Episode([h EXCEPT !.trace = Append(@, r),
                    !.consumed = IF r.has THEN Append(@, <<tick, r.input.tick>>) ELSE @], r)

\* new Projectile(id, ownerId, ...): id is the id the client supplied with the
\* mouse target, here the tick of the payload; age() starts its lifespan timer
NewProjectile(p, input) ==
  [id |-> input.tick, ownerId |-> p, shouldBeDestroyed |-> FALSE]

\* a player's step written back to the world; a shot pushes a projectile
Stepped(t, m, p, r) ==
  [t EXCEPT !.phys[p] = r.ph,
            !.mt[m].projectiles = IF r.shot THEN Append(@, NewProjectile(p, r.input)) ELSE @,
            !.hist.pl[p] = StepHist(@, r, t.clock[m].serverTick)]

IntegrateOne(t, m, p) ==
  Stepped(t, m, p, IntegratePlayer(t.phys[p], t.mt[m].players[p].by))

\* for (const player of this.worldState.players.values())
RECURSIVE IntegrateAll(_, _, _)
IntegrateAll(t, m, keys) ==
  IF keys = <<>> THEN t
  ELSE IntegrateAll(IntegrateOne(t, m, Head(keys)), m, Tail(keys))

\* Match.integratePlayerInputs: every player of the world takes one step, in
\* the insertion order of the players Map
integratePlayerInputs(t, m) == IntegrateAll(t, m, t.mt[m].keys)

\* projectile => !projectile.shouldBeDestroyed
Alive(projectile) == ~ projectile.shouldBeDestroyed

\* updatePhysics: the projectiles whose lifespan has ended are dropped
FilterProjectiles(t, m) == [t EXCEPT !.mt[m].projectiles = SelectSeq(@, Alive)]

\* Match.updatePhysics
updatePhysics(t, m) ==
  [checkWinCondition(FilterProjectiles(integratePlayerInputs(t, m), m), m)
     EXCEPT !.hist.ma[m].steps = @ + 1]

\* processAfkPlayers, the warning: afkWarning to the player's socket and the
\* 10 s timer armed
Warned(t, p, s) ==
  Emit([t EXCEPT !.phys[p].afkRemoveTimer = "armed", !.phys[p].afkSocket = s,
                 !.hist.pl[p].answered = FALSE], s, "afkWarning")

\* processAfkPlayers for one player: a disconnected player is passed over; a
\* player idle beyond AFK_THRESHOLD_MS with no afkRemoveTimer, whose socket is
\* among the match's sockets, is warned
AfkChecked(t, m, p) ==
  IF t.mt[m].players[p].dc THEN t
  ELSE IF /\ t.phys[p].idle
          /\ t.phys[p].afkRemoveTimer = "none"
          /\ t.mt[m].p2s[p] \in Range(t.mt[m].sockets)
  THEN Warned(t, p, t.mt[m].p2s[p])
  ELSE t

RECURSIVE AfkCheckAll(_, _, _)
AfkCheckAll(t, m, keys) ==
  IF keys = <<>> THEN t
  ELSE AfkCheckAll(AfkChecked(t, m, Head(keys)), m, Tail(keys))

\* Match.processAfkPlayers
processAfkPlayers(t, m) == AfkCheckAll(t, m, t.mt[m].keys)

\* while (accumulator >= MIN_MS_BETWEEN_TICKS) { updatePhysics;
\* processAfkPlayers; serverTick++ }
RECURSIVE FixedSteps(_, _)
FixedSteps(t, m) ==
  IF ~ Geq(t.clock[m].accumulator, MIN_MS_BETWEEN_TICKS) THEN t
  ELSE FixedSteps([processAfkPlayers(updatePhysics(t, m), m)
                     EXCEPT !.clock[m].accumulator = Minus(@, MIN_MS_BETWEEN_TICKS),
                            !.clock[m].serverTick = @ + 1], m)

\* Match.update() when frameTime ms have passed since lastUpdateTime
update(t, m, frameTime) ==
  FixedSteps([t EXCEPT !.clock[m].accumulator = AddMs(@, Min(frameTime, MAX_FRAME_TIME)),
                       !.hist.pl = [p \in PlayerIds |->
                           IF t.mt[m].players[p].in THEN [@[p] EXCEPT !.trace = <<>>] ELSE @[p]]],
             m)

\* Match.broadcastGameState: the frame carries serverTick
Broadcast(h, serverTick) ==
  [h EXCEPT !.bc = Min(@ + 1, 2), !.prev = h.cur, !.cur = serverTick,
            !.between = h.steps - h.atBc, !.atBc = h.steps]

\* projectiles.filter(shouldBeDestroyed === false).map(getState): the
\* projectiles a broadcast carries, as <<ownerId, id>>
projectileState(mr) ==
  {<<mr.projectiles[i].ownerId, mr.projectiles[i].id>> :
     i \in {j \in DOMAIN mr.projectiles : Alive(mr.projectiles[j])}}

Published(h, carried) ==
  [h EXCEPT !.again = carried \cap h.seen, !.seen = h.seen \cup carried]

broadcastFrame(t, m) ==
  [broadcastGameState(t, m) EXCEPT
     !.hist.ma[m] = Published(Broadcast(@, t.clock[m].serverTick), projectileState(t.mt[m]))]

\* Match.informShowIsLive
informShowIsLive(t, m) == EmitAll(t, t.mt[m].sockets, "showIsLive")

\* if (this.showisLive === true) match.informShowIsLive()
Informed(t, m) == IF t.showisLive THEN informShowIsLive(t, m) ELSE t

\* the body of the forEach in serverLoop; frameTime is the time since the
\* lastUpdateTime of the match
LoopFrame(t, m, frameTime) ==
  IF t.mt[m].isReady /\ ~ t.mt[m].shouldRemove
  THEN Informed(broadcastFrame(update(t, m, frameTime), m), m)
  ELSE IF t.mt[m].shouldRemove
  THEN removeMatch(t, m)
  ELSE t

\* this.matches.forEach(...) over the registry in insertion order; frameTimes
\* gives, for each match, the time since its lastUpdateTime
RECURSIVE ForEachMatch(_, _, _)
ForEachMatch(t, todo, frameTimes) ==
  IF todo = <<>> THEN t
  ELSE ForEachMatch(LoopFrame(t, Head(todo), frameTimes[Head(todo)]), Tail(todo), frameTimes)

\* the pass of Matchmaker.serverLoop when now - lastBroadcast >= FRAME_MS
serverLoop(t, frameTimes) ==
  [ForEachMatch(t, t.matches, frameTimes) EXCEPT !.showisLive = FALSE]

\* ------------------------------------------------- Player: delta encoding
\* Player.getLatestState(): the fields that getLatestStateDelta compares
getLatestState(t, p) ==
  [ hp |-> t.mt[p[2]].players[p].hp, isBystander |-> t.mt[p[2]].players[p].by,
    name |-> p[1], isDead |-> t.phys[p].isDead,
    kills |-> t.phys[p].kills, deaths |-> t.phys[p].deaths ]

\* a field is put into the delta when there is no lastBroadcastState or its
\* value differs from the one broadcast last
Carried(last, cur, f) == ~ last.set \/ last.s[f] # cur[f]

\* a delta that carries the bystander flag in the first broadcast only
DeltaOfOnce(last, cur) ==
  [f \in BroadcastFields |->
     [has |-> IF f = "isBystander" THEN ~ last.set ELSE Carried(last, cur, f),
      v |-> cur[f]]]

\* the optional fields of the delta
DeltaOf(last, cur) ==
  [f \in BroadcastFields |-> [has |-> Carried(last, cur, f), v |-> cur[f]]]

\* the client's copy after a delta: each field the delta carries overwrites
Fold(copy, delta) ==
  [f \in BroadcastFields |->
     IF delta[f].has THEN [has |-> TRUE, v |-> delta[f].v] ELSE copy[f]]

\* the delta of the current state cur is returned and cur becomes
\* lastBroadcastState
Delivered(t, p, cur) ==
  [t EXCEPT !.phys[p].lastBroadcastState = [set |-> TRUE, s |-> cur],
            !.hist.pl[p].deltas = @ + 1,
            !.hist.pl[p].fold = Fold(@, DeltaOf(t.phys[p].lastBroadcastState, cur))]

\* Player.getLatestStateDelta()
getLatestStateDelta(t, p) == Delivered(t, p, getLatestState(t, p))

\* Player.addKill, Player.addDeath, Player.setIsDead, Player.resetScore
addKill(ph) == [ph EXCEPT !.kills = @ + 1]
addDeath(ph) ==
  clearInputDebt([ph EXCEPT !.deaths = @ + 1, !.isDead = TRUE, !.inputQueue = <<>>])
setIsDead(ph, dead) == [ph EXCEPT !.isDead = dead]
resetScore(ph) == [ph EXCEPT !.kills = 0, !.deaths = 0]

\* Player.respawn(x, y)
respawn(ph, x, y) ==
  [setIsDead(ph, FALSE) EXCEPT !.x = x, !.y = y, !.vx = 0, !.vy = 0,
                               !.isOnGround = FALSE, !.canDoubleJump = TRUE]

\* if (player.afkRemoveTimer) { clearTimeout; timeoutIds.delete; = undefined }
clearAfkTimer(ph) == [ph EXCEPT !.afkRemoveTimer = "none", !.afkSocket = 0]

\* Match.handlePlayerInputPayload that leaves the AFK timer running
handlePlayerInputPayloadKeepTimer(t, m, p, input) ==
  IF ~ t.mt[m].players[p].in
  THEN t
  ELSE [t EXCEPT !.phys[p] = queueInput(@, input)]

\* Match.handlePlayerInputPayload
handlePlayerInputPayload(t, m, p, input) ==
  IF ~ t.mt[m].players[p].in
  THEN t
  ELSE [t EXCEPT !.phys[p] = clearAfkTimer(queueInput(@, input))]

\* ---------------------------------------------------------------- actions
Init ==
  /\ sock = [s \in Sockets |-> "new"]
  /\ joinL = [s \in Sockets |-> FALSE]
  /\ hdl = [s \in Sockets |-> NoHandler]
  /\ first = [s \in Sockets |-> "none"]
  /\ matches = <<>>
  /\ nextId = 0
  /\ disconnectedPlayers = [pid \in PlayerMatchIds |-> 0]
  /\ showisLive = FALSE
  /\ mt = [m \in MatchIds |-> NoMatch]
  /\ expired = {}
  /\ phys = [p \in PlayerIds |-> FreshPhys]
  /\ clock = [m \in MatchIds |-> NoClock]
  /\ hist = NoHist

\* io.on('connection'): connectionHandler registers the joinQueue listener.
\* Socket ids are arbitrary, so sessions are opened in increasing order.
Connect(s) ==
  /\ sock[s] = "new"
  /\ \A r \in Sockets : r < s => sock[r] # "new"
  /\ Commit([St EXCEPT !.sock[s] = "open", !.joinL[s] = TRUE])

\* socket.on('joinQueue', {region, name, playerMatchId}); id is the string
\* that generateMatchId returns if a match is created: one drawn before or the
\* next new one
JoinQueue(s, region, pmid, id) ==
  /\ sock[s] = "open"
  /\ joinL[s]
  /\ id <= nextId + 1
  /\ IF region \in VALID_REGIONS
     THEN /\ findMatchInRegion(St, region, pmid).match = 0 => nextId < MaxMatches
          /\ Commit(enqueuePlayer(St, s, region, pmid, id))
     ELSE Commit(CloseSocket(Emit(St, s, "error"), s))

\* the client closes its session
Disconnect(s) ==
  /\ sock[s] = "open"
  /\ Commit(CloseSocket(St, s))

\* the grace-period timer of handlePlayerDisconnect fires
GraceExpire(m, g) ==
  /\ g \in mt[m].graceTimers
  /\ Commit(removePlayerFromGameState(
        [St EXCEPT !.mt[m].graceTimers = @ \ {g}], m, g.p, g.s))

\* socket.on('toggleBystander')
ToggleBystander(s) ==
  /\ sock[s] = "open"
  /\ hdl[s] # NoHandler
  /\ Commit(handleToggleBystander(St, hdl[s].m, hdl[s].p))

\* deaths recorded in the scores of all matches
RECURSIVE SumDeaths(_, _)
SumDeaths(mr, P) ==
  IF P = {} THEN 0
  ELSE LET p == CHOOSE q \in P : TRUE
       IN mr.playerScores[p].deaths + SumDeaths(mr, P \ {p})

RECURSIVE TotalDeaths(_)
TotalDeaths(M) ==
  IF M = {} THEN 0
  ELSE LET m == CHOOSE x \in M : TRUE
       IN SumDeaths(mt[m], PlayerIds) + TotalDeaths(M \ {m})

\* socket.on('projectileHit', enemyId): one report that names the
\* playerMatchId enemy.  Hits are sent only while fewer than maxDeaths deaths
\* are on the score boards.
ProjectileHit(s, enemy, maxDeaths) ==
  /\ sock[s] = "open"
  /\ hdl[s] # NoHandler
  /\ TotalDeaths(MatchIds) < maxDeaths
  /\ Commit(handleProjectileHit(St, hdl[s].m, hdl[s].p, enemy))

\* the 3 s timer of scheulePlayerRespawn fires
RespawnTimer(m, p) ==
  /\ p \in mt[m].respawnTimers
  /\ Commit(respawnPlayer([St EXCEPT !.mt[m].respawnTimers = @ \ {p}], m, p))

\* the 10 s matchResetTimeout fires
ResetTimer(m) ==
  /\ mt[m].matchResetTimeout
  /\ Commit([resetMatch(St, m) EXCEPT
               !.hist.ma[m].resets = 1,
               !.hist.ma[m].tickAtReset = clock[m].serverTick,
               !.hist.ma[m].since = Min(@ + 1, 2),
               !.hist.ma[m].go = 0,
               !.hist.ma[m].newKill = FALSE,
               !.hist.ma[m].pending = Max(@ - 1, 0),
               !.hist.ma[m].healed =
                   \E p \in PlayerIds : mt[m].players[p].in /\ mt[m].players[p].hp < MAX_HP])

\* socket.on('playerInput', payload): the client's payloads carry increasing
\* ticks; each client sends at most maxInputs of them
PlayerInput(s, v, maxInputs) ==
  /\ sock[s] = "open"
  /\ hdl[s] # NoHandler
  /\ hist.pl[hdl[s].p].sent < maxInputs
  /\ LET p == hdl[s].p
         input == [tick |-> hist.pl[p].sent, x |-> v.x, y |-> v.y, mouse |-> v.mouse]
         t == handlePlayerInputPayload(St, hdl[s].m, p, input)
     IN Commit([t EXCEPT !.hist.pl[p].sent = @ + 1,
                         !.hist.pl[p].window =
                             @ + Len(t.phys[p].inputQueue) - Len(phys[p].inputQueue),
                         !.hist.pl[p].answered =
                             @ \/ (mt[p[2]].players[p].in /\ phys[p].afkRemoveTimer = "armed")])

\* AFK_THRESHOLD_MS pass in which no playerInput of the player arrives: from
\* now on currentTime - lastInputTimestamp > AFK_THRESHOLD_MS
AfkThreshold(p) ==
  /\ mt[p[2]].players[p].in
  /\ ~ phys[p].idle
  /\ Commit([St EXCEPT !.phys[p].idle = TRUE])

\* the 10 s timer of processAfkPlayers fires: afkRemoved, then
\* playerSocket.disconnect(true); the player keeps the handle
AfkRemove(p) ==
  /\ phys[p].afkRemoveTimer = "armed"
  /\ Commit(CloseSocket(
        Emit([St EXCEPT !.phys[p].afkRemoveTimer = "stale"], phys[p].afkSocket, "afkRemoved"),
        phys[p].afkSocket))

\* 1000 ms have passed since the current window of a player began
WindowRolls(p) ==
  /\ hist.pl[p].window > 0
  /\ Commit([St EXCEPT !.hist.pl[p].window = 0])

\* a broadcast asks the player for its delta
DeltaBroadcast(p, maxDeltas) ==
  /\ mt[p[2]].players[p].in
  /\ hist.pl[p].deltas < maxDeltas
  /\ Commit(getLatestStateDelta(St, p))

\* the score methods of a Player of the world are called
AddKill(p, maxScore) ==
  /\ mt[p[2]].players[p].in
  /\ phys[p].kills < maxScore
  /\ Commit([St EXCEPT !.phys[p] = addKill(@)])

AddDeath(p, maxScore) ==
  /\ mt[p[2]].players[p].in
  /\ phys[p].deaths < maxScore
  /\ Commit([St EXCEPT !.phys[p] = addDeath(@)])

SetIsDead(p, dead) ==
  /\ mt[p[2]].players[p].in
  /\ phys[p].isDead # dead
  /\ Commit([St EXCEPT !.phys[p] = setIsDead(@, dead)])

ResetScore(p) ==
  /\ mt[p[2]].players[p].in
  /\ phys[p].kills + phys[p].deaths > 0
  /\ Commit([St EXCEPT !.phys[p] = resetScore(@)])

\* the health and bystander methods of a Player of the world are called
Damage(p, amount) ==
  /\ mt[p[2]].players[p].in
  /\ Commit([St EXCEPT !.mt[p[2]].players[p].hp = damage(@, amount)])

Heal(p, amount) ==
  /\ mt[p[2]].players[p].in
  /\ Commit([St EXCEPT !.mt[p[2]].players[p].hp = heal(@, amount)])

ResetHealth(p) ==
  /\ mt[p[2]].players[p].in
  /\ Commit([St EXCEPT !.mt[p[2]].players[p].hp = MAX_HP])

SetIsBystander(p, value) ==
  /\ mt[p[2]].players[p].in
  /\ Commit([St EXCEPT !.mt[p[2]].players[p].by = value])

Respawn(p) ==
  /\ mt[p[2]].players[p].in
  /\ Commit([St EXCEPT !.mt[p[2]].players[p].hp = MAX_HP,
                       !.phys[p] = respawn(@, Px(STARTING_X), Px(STARTING_Y))])

\* the lifespan timer of Projectile.age fires
ProjectileAge(m, i) ==
  /\ i \in DOMAIN mt[m].projectiles
  /\ Alive(mt[m].projectiles[i])
  /\ Commit([St EXCEPT !.mt[m].projectiles[i].shouldBeDestroyed = TRUE])

\* the match is updated by a pass of serverLoop
Runs(m) == m \in Range(matches) /\ mt[m].isReady /\ ~ mt[m].shouldRemove

\* one pass of Matchmaker.serverLoop with a frame due.  Each match reads the
\* clock itself and measures the time since its own lastUpdateTime, which is
\* the time of its latest update or of its construction: frameTimes[m] is what
\* match m measures.  No frame is run beyond server tick maxTick.
Frame(frameTimes, maxTick) ==
  /\ \A m \in MatchIds : Runs(m) => clock[m].serverTick < maxTick
  /\ Commit(serverLoop(St, frameTimes))

\* Matchmaker.setShowIsLive(show) is called
SetShowIsLive(show) == Commit([St EXCEPT !.showisLive = show])

\* Matchmaker.shutdown() is called
Shutdown == Commit(shutdown(St))

Fighters == 1..NumFighters
Duel == 1..2

\* matchmaking of two sessions: placement in any region, reconnects,
\* disconnects, grace expiry, the driver and the shutdown
Next ==
  \/ \E s \in Duel : Connect(s)
  \/ \E s \in Duel, region \in JoinRegions, pmid \in PlayerMatchIds \cup {NoPid},
        id \in MatchNames : JoinQueue(s, region, pmid, id)
  \/ \E s \in Duel : Disconnect(s)
  \/ \E m \in MatchIds : \E g \in mt[m].graceTimers : GraceExpire(m, g)
  \/ \E frameTimes \in [MatchIds -> LifeFrameTimes] : Frame(frameTimes, LifeRun)
  \/ Shutdown
  \/ \E show \in BOOLEAN : SetShowIsLive(show)

Spec == Init /\ [][Next]_vars

\* placement of three sessions that name no playerMatchId, in two regions
NextPlacement ==
  \/ \E s \in Sockets : Connect(s)
  \/ \E s \in Sockets, region \in VALID_REGIONS \ {"ASIA"}, id \in MatchNames :
        JoinQueue(s, region, NoPid, id)
  \/ \E s \in Sockets : Disconnect(s)
  \/ \E m \in MatchIds : \E g \in mt[m].graceTimers : GraceExpire(m, g)
  \/ \E frameTimes \in [MatchIds -> PlacementFrameTimes] : Frame(frameTimes, LifeRun)

SpecPlacement == Init /\ [][NextPlacement]_vars

\* two sessions in one region: reconnects, disconnects, grace expiry, hits
\* of either session against the players of the first, deaths and respawns,
\* the driver; no match id is drawn twice
NextCombat ==
  \/ \E s \in Duel : Connect(s)
  \/ \E s \in Duel, pmid \in PlayerMatchIds \cup {NoPid} :
        JoinQueue(s, "NA", pmid, nextId + 1)
  \/ \E s \in Duel : Disconnect(s)
  \/ \E m \in MatchIds : \E g \in mt[m].graceTimers : GraceExpire(m, g)
  \/ \E s \in Fighters : ToggleBystander(s)
  \/ \E s \in Duel, id \in MatchNames : ProjectileHit(s, PlayerMatchId(1, id), MaxDeaths)
  \/ \E m \in MatchIds : \E p \in mt[m].respawnTimers : RespawnTimer(m, p)
  \/ \E frameTimes \in [MatchIds -> LifeFrameTimes] : Frame(frameTimes, LifeRun)

SpecCombat == Init /\ [][NextCombat]_vars

\* three sessions in one region, as new players or under a playerMatchId:
\* the second hits the first and closes, reconnects through another session,
\* deaths and respawns, grace expiry, the driver; no match id is drawn twice
NextCapacity ==
  \/ \E s \in Sockets : Connect(s)
  \/ \E s \in Sockets, pmid \in PlayerMatchIds \cup {NoPid} :
        JoinQueue(s, "NA", pmid, nextId + 1)
  \/ Disconnect(2)
  \/ \E m \in MatchIds : \E g \in mt[m].graceTimers : GraceExpire(m, g)
  \/ \E s \in Fighters : ToggleBystander(s)
  \/ \E id \in MatchNames : ProjectileHit(2, PlayerMatchId(1, id), MaxDeaths)
  \/ \E m \in MatchIds : \E p \in mt[m].respawnTimers : RespawnTimer(m, p)
  \/ \E frameTimes \in [MatchIds -> PlacementFrameTimes] : Frame(frameTimes, LifeRun)

SpecCapacity == Init /\ [][NextCapacity]_vars

\* one player in the arena: inputs and frames
NextPlayer ==
  \/ Connect(1)
  \/ \E id \in MatchNames : JoinQueue(1, "NA", NoPid, id)
  \/ ToggleBystander(1)
  \/ \E v \in InputVectors : PlayerInput(1, v, MaxInputs)
  \/ \E frameTimes \in [MatchIds -> FrameTimes] : Frame(frameTimes, ShortRun)

SpecPlayer == Init /\ [][NextPlayer]_vars

\* one player in the arena, long frames: the player lands
NextArena ==
  \/ Connect(1)
  \/ \E id \in MatchNames : JoinQueue(1, "NA", NoPid, id)
  \/ ToggleBystander(1)
  \/ \E v \in InputVectors : PlayerInput(1, v, ArenaInputs)
  \/ \E frameTimes \in [MatchIds -> LongFrameTimes] : Frame(frameTimes, LongRun)

SpecArena == Init /\ [][NextArena]_vars

\* one player that sends nothing but jump inputs: it lands on a platform,
\* jumps from it, jumps again in the air and tries a third time
JumpVectors == { [x |-> 0, y |-> -1, mouse |-> FALSE] }

NextJump ==
  \/ Connect(1)
  \/ \E id \in MatchNames : JoinQueue(1, "NA", NoPid, id)
  \/ \E v \in JumpVectors : PlayerInput(1, v, JumpInputs)
  \/ \E frameTimes \in [MatchIds -> LongFrameTimes] : Frame(frameTimes, JumpRun)

SpecJump == Init /\ [][NextJump]_vars

\* two players who join once: inputs of the second, frames, hits of the first
\* against the second, deaths, respawns, the win and the reset of the match
NextRound ==
  \/ \E s \in Duel : Connect(s)
  \/ \E s \in Duel : hdl[s] = NoHandler /\ JoinQueue(s, "NA", NoPid, nextId + 1)
  \/ \E s \in Duel : ToggleBystander(s)
  \/ ProjectileHit(1, PlayerMatchId(2, 1), RoundDeaths)
  \/ \E m \in MatchIds : \E p \in mt[m].respawnTimers : RespawnTimer(m, p)
  \/ \E m \in MatchIds : ResetTimer(m)
  \/ \E v \in RoundVectors : PlayerInput(2, v, RoundInputs)
  \/ \E frameTimes \in [MatchIds -> RoundFrameTimes] : Frame(frameTimes, RoundRun)

SpecRound == Init /\ [][NextRound]_vars

\* one player that shoots: inputs with a mouse target, frames, the lifespan
\* of the projectiles
NextShots ==
  \/ Connect(1)
  \/ \E id \in MatchNames : JoinQueue(1, "NA", NoPid, id)
  \/ ToggleBystander(1)
  \/ \E v \in ShotVectors : PlayerInput(1, v, ShotInputs)
  \/ \E frameTimes \in [MatchIds -> ShotFrameTimes] : Frame(frameTimes, ShotRun)
  \/ \E m \in MatchIds, i \in 1..MaxProjectiles : ProjectileAge(m, i)

SpecShots == Init /\ [][NextShots]_vars

\* one player whose client floods the match with playerInput messages
NextFlood ==
  \/ Connect(1)
  \/ \E id \in MatchNames : JoinQueue(1, "NA", NoPid, id)
  \/ PlayerInput(1, Vec(NoInput), FloodInputs)
  \/ \E p \in PlayerIds : WindowRolls(p)

SpecFlood == Init /\ [][NextFlood]_vars

\* two players who join once and may be idle: the AFK warning and its timer,
\* inputs, hits, deaths, respawns, the win and the reset
NextAfk ==
  \/ \E s \in Duel : Connect(s)
  \/ \E s \in Duel : hdl[s] = NoHandler /\ JoinQueue(s, "NA", NoPid, nextId + 1)
  \/ ToggleBystander(2)
  \/ ProjectileHit(1, PlayerMatchId(2, 1), AfkDeaths)
  \/ \E m \in MatchIds : \E p \in mt[m].respawnTimers : RespawnTimer(m, p)
  \/ \E m \in MatchIds : ResetTimer(m)
  \/ PlayerInput(1, Vec(NoInput), AfkInputs)
  \/ \E s \in Duel : AfkThreshold(Key(s, 1))
  \/ \E p \in PlayerIds : AfkRemove(p)
  \/ \E frameTimes \in [MatchIds -> AfkFrameTimes] : Frame(frameTimes, AfkRun)

SpecAfk == Init /\ [][NextAfk]_vars

\* two players who join once, until the match ends: hits, deaths, respawns,
\* the win and the reset, idle players and their AFK timers, sessions that
\* close, grace periods, the driver's reaping and the shutdown
NextMatchEnd ==
  \/ \E s \in Duel : Connect(s)
  \/ \E s \in Duel : hdl[s] = NoHandler /\ JoinQueue(s, "NA", NoPid, nextId + 1)
  \/ \E s \in Duel : Disconnect(s)
  \/ \E m \in MatchIds : \E g \in mt[m].graceTimers : GraceExpire(m, g)
  \/ \E s \in Duel : ToggleBystander(s)
  \/ ProjectileHit(1, PlayerMatchId(2, 1), EndDeaths)
  \/ \E m \in MatchIds : \E p \in mt[m].respawnTimers : RespawnTimer(m, p)
  \/ \E m \in MatchIds : ResetTimer(m)
  \/ \E s \in Duel : AfkThreshold(Key(s, 1))
  \/ \E p \in PlayerIds : AfkRemove(p)
  \/ \E frameTimes \in [MatchIds -> LifeFrameTimes] : Frame(frameTimes, LifeRun)
  \/ Shutdown

SpecMatchEnd == Init /\ [][NextMatchEnd]_vars

\* two players who join once, sessions that close, the win, hits and kills
\* while the match awaits its reset, the reset, the driver's reaping and the
\* shutdown
NextReset ==
  \/ \E s \in Duel : Connect(s)
  \/ \E s \in Duel : hdl[s] = NoHandler /\ JoinQueue(s, "NA", NoPid, nextId + 1)
  \/ \E s \in Duel : Disconnect(s)
  \/ \E m \in MatchIds : \E g \in mt[m].graceTimers : GraceExpire(m, g)
  \/ ToggleBystander(2)
  \/ ProjectileHit(1, PlayerMatchId(2, 1), ResetDeaths)
  \/ \E m \in MatchIds : \E p \in mt[m].respawnTimers : RespawnTimer(m, p)
  \/ \E m \in MatchIds : ResetTimer(m)
  \/ \E frameTimes \in [MatchIds -> LifeFrameTimes] : Frame(frameTimes, LifeRun)
  \/ Shutdown

\* a timer that stays pending fires: the matchResetTimeout after 10 s
SpecReset ==
  Init /\ [][NextReset]_vars /\ WF_vars(\E m \in MatchIds : ResetTimer(m))

\* two players who join once and hit each other: deaths, respawns, the win,
\* the reset and the fixed steps of the round that follows
NextRematch ==
  \/ \E s \in Duel : Connect(s)
  \/ \E s \in Duel, id \in MatchNames :
        hdl[s] = NoHandler /\ JoinQueue(s, "NA", NoPid, id)
  \/ \E s \in Duel : ToggleBystander(s)
  \/ \E s \in Duel :
        ProjectileHit(s, PlayerMatchId(3 - s, 1), RematchDeaths)
  \/ \E m \in MatchIds : \E p \in mt[m].respawnTimers : RespawnTimer(m, p)
  \/ \E m \in MatchIds : ResetTimer(m)
  \/ \E frameTimes \in [MatchIds -> LifeFrameTimes] : Frame(frameTimes, LifeRun)

SpecRematch == Init /\ [][NextRematch]_vars

\* two players who join once; the state changes of the first (the health,
\* bystander and score methods, a hit of the second that kills it, the
\* respawn) interleave with the broadcasts that ask it for its delta
Amounts == {5 * DAMAGE}

\* one more hit takes the last hp of the player
Weak(p) == mt[p[2]].players[p].hp <= DAMAGE

NextDelta ==
  \/ \E s \in Duel : Connect(s)
  \/ \E s \in Duel, id \in MatchNames : hdl[s] = NoHandler /\ JoinQueue(s, "NA", NoPid, id)
  \/ \E s \in Duel : ToggleBystander(s)
  \/ Weak(Key(1, 1)) /\ ProjectileHit(2, PlayerMatchId(1, 1), DeltaDeaths)
  \/ \E m \in MatchIds : \E p \in mt[m].respawnTimers : RespawnTimer(m, p)
  \/ DeltaBroadcast(Key(1, 1), MaxDeltas)
  \/ AddKill(Key(1, 1), MaxScore)
  \/ AddDeath(Key(1, 1), MaxScore)
  \/ \E dead \in BOOLEAN : SetIsDead(Key(1, 1), dead)
  \/ ResetScore(Key(1, 1))
  \/ \E amount \in Amounts : Damage(Key(1, 1), amount)
  \/ \E amount \in Amounts : Heal(Key(1, 1), amount)
  \/ ResetHealth(Key(1, 1))
  \/ \E value \in BOOLEAN : SetIsBystander(Key(1, 1), value)
  \/ Respawn(Key(1, 1))

SpecDelta == Init /\ [][NextDelta]_vars

\* one player whose Player object is marked dead by addDeath and revived by
\* respawn, with inputs and frames in between
NextDead ==
  \/ Connect(1)
  \/ JoinQueue(1, "NA", NoPid, nextId + 1)
  \/ ToggleBystander(1)
  \/ AddDeath(Key(1, 1), MaxScore)
  \/ Respawn(Key(1, 1))
  \/ \E v \in ShotVectors : PlayerInput(1, v, DeadInputs)
  \/ \E frameTimes \in [MatchIds -> ShotFrameTimes] : Frame(frameTimes, DeadRun)

SpecDead == Init /\ [][NextDead]_vars

\* two players who join once, one of which may hit the other or itself:
\* deaths, respawns by the 3 s timer or at the win, the driver's reaping, and a
\* session that closes while no respawn is pending (so that its 20 s grace
\* timer was set before every respawn timer that is pending when it fires)
NextRespawn ==
  \/ \E s \in Duel : Connect(s)
  \/ \E s \in Duel, id \in MatchNames :
        hdl[s] = NoHandler /\ JoinQueue(s, "NA", NoPid, id)
  \/ (\A m \in MatchIds : mt[m].respawnTimers = {}) /\ Disconnect(2)
  \/ \E m \in MatchIds : \E g \in mt[m].graceTimers : GraceExpire(m, g)
  \/ \E s \in Duel : ToggleBystander(s)
  \/ \E s \in Duel :
        ProjectileHit(1, PlayerMatchId(s, 1), RespawnDeaths)
  \/ \E m \in MatchIds : \E p \in mt[m].respawnTimers : RespawnTimer(m, p)
  \/ \E m \in MatchIds : ResetTimer(m)
  \/ \E frameTimes \in [MatchIds -> LifeFrameTimes] : Frame(frameTimes, LifeRun)

\* a respawn timer that stays pending fires after 3 s
SpecRespawn ==
  /\ Init /\ [][NextRespawn]_vars
  /\ \A m \in MatchIds : \A p \in PlayerIds : WF_vars(RespawnTimer(m, p))

\* ------------------------------------------------------------- properties
Registry == Range(matches)

\* the Match object m was constructed and cleanUpSession has not run on it
InUse(m) == mt[m].id # 0 /\ ~ hist.ma[m].cleaned

\* C1: no client session is a member of more than one match of the registry
\* at the same time, and no playerMatchId is on the score board of two matches
C1_OneMatchPerSession ==
  \A m1 \in Registry, m2 \in Registry :
    m1 # m2 =>
      /\ Range(mt[m1].sockets) \cap Range(mt[m2].sockets) = {}
      /\ ScoreIds(St, m1) \cap ScoreIds(St, m2) = {}

\* C2: a match whose shouldRemove flag is set has no players in its world
C2_MarkedMatchHasNoPlayers ==
  \A m \in Registry : mt[m].shouldRemove => WorldPlayers(mt[m]) = {}

\* C6: a joinQueue that carries the playerMatchId of a player removed by a
\* grace-period expiry is answered with an error and the session is closed;
\* the session is put into no match
C6_ExpiredIdIsRejected ==
  [][\A s \in Sockets, region \in VALID_REGIONS, pmid \in {e.id : e \in expired},
        id \in MatchNames :
       JoinQueue(s, region, pmid, id) =>
         /\ <<s, "error">> \in Range(enqueuePlayer(St, s, region, pmid, id).out)
         /\ sock'[s] = "closed"
         /\ \A m \in MatchIds : s \in Range(mt'[m].sockets) => s \in Range(mt[m].sockets)]_vars

\* the joinQueue names a player of the disconnected index whose match exists
Reconnecting(pmid) ==
  /\ pmid # NoPid
  /\ disconnectedPlayers[pmid] # 0
  /\ Registered(St, disconnectedPlayers[pmid]) # 0

\* registry positions whose match has the region and fewer players on its
\* score board than MAX_PLAYERS_PER_MATCH
Fits(region) ==
  {i \in DOMAIN matches :
     /\ mt[matches[i]].region = region
     /\ Cardinality(getPlayerIds(mt[matches[i]])) < MAX_PLAYERS_PER_MATCH}

\* C9: a joinQueue of a non-reconnecting player puts the session into the
\* first match, in insertion order of the registry, that has the requested
\* region and fewer than MAX_PLAYERS_PER_MATCH players, and into no other; a
\* new match, of the requested region, is created only when no match fits
C9_FirstFitPlacement ==
  [][\A s \in Sockets, region \in VALID_REGIONS, pmid \in PlayerMatchIds \cup {NoPid},
        id \in MatchNames :
       (JoinQueue(s, region, pmid, id) /\ ~ Reconnecting(pmid)) =>
         LET fits == Fits(region)
         IN IF fits # {}
            THEN LET m == matches[CHOOSE i \in fits : \A j \in fits : i <= j]
                 IN /\ s \in Range(mt'[m].sockets)
                    /\ matches' = matches
                    /\ \A o \in MatchIds \ {m} :
                          s \in Range(mt'[o].sockets) => s \in Range(mt[o].sockets)
            ELSE LET m == nextId + 1
                 IN /\ mt[m] = NoMatch
                    /\ m \in Range(matches')
                    /\ mt'[m].region = region
                    /\ s \in Range(mt'[m].sockets)
                    /\ \A o \in MatchIds \ {m} :
                          s \in Range(mt'[o].sockets) => s \in Range(mt[o].sockets)]_vars

\* two matches of one region had space (the later one has lost no player and
\* still has space), and a session that had been placed in the later one was
\* then placed, as a new player, in the earlier one
C9_Witness ==
  /\ Len(matches) = 2
  /\ mt[matches[1]].region = mt[matches[2]].region
  /\ Cardinality(getPlayerIds(mt[matches[2]])) < MAX_PLAYERS_PER_MATCH
  /\ \A e \in expired : e.p[2] = matches[1]
  /\ \E s \in Sockets :
       /\ s \in Range(mt[matches[2]].sockets)
       /\ hdl[s] = [m |-> matches[1], p |-> Key(s, matches[1])]

\* the session of s is bound to a player that is on its match's score board
BoundPlayer(s) ==
  /\ hdl[s] # NoHandler
  /\ mt[hdl[s].m].playerScores[hdl[s].p].in

\* C3: when the session of a player of a match closes, the removal of that
\* player at the end of the grace period is scheduled
C3_ClosedSessionRemovalScheduled ==
  [][\A s \in Sockets :
       (Disconnect(s) /\ BoundPlayer(s)) =>
         [p |-> hdl[s].p, s |-> s] \in mt'[hdl[s].m].graceTimers]_vars

\* every player on the score board of m belongs to a closed session
Abandoned(m) ==
  /\ getPlayerIds(mt[m]) # {}
  /\ \A p \in getPlayerIds(mt[m]) :
       mt[m].p2s[p] \in Sockets /\ sock[mt[m].p2s[p]] = "closed"

\* C4: a match of the registry all of whose players have disconnected is
\* marked shouldRemove, or still has a grace period running that ends in
\* the removal of a player
C4_AbandonedMatchIsRemoved ==
  \A m \in Registry :
    Abandoned(m) => (mt[m].shouldRemove \/ mt[m].graceTimers # {})

\* C5: a joinQueue that names a player of the disconnected index whose match
\* exists is answered with rejoinedMatch and binds the session to that player
\* in that match; the player's kills and deaths are kept, the player is not
\* flagged disconnected, its grace period is cancelled and its index entry
\* is gone
C5_ReconnectResumesPlayer ==
  [][\A s \in Sockets, region \in VALID_REGIONS, pmid \in PlayerMatchIds, id \in MatchNames :
       (JoinQueue(s, region, pmid, id) /\ Reconnecting(pmid)) =>
         LET m == Registered(St, disconnectedPlayers[pmid])
             p == Key(pmid[1], Registered(St, disconnectedPlayers[pmid]))
         IN /\ <<s, "rejoinedMatch">> \in Range(enqueuePlayer(St, s, region, pmid, id).out)
            /\ hdl'[s] = [m |-> m, p |-> p]
            /\ s \in Range(mt'[m].sockets)
            /\ mt'[m].playerScores[p].in
            /\ mt'[m].playerScores[p] = mt[m].playerScores[p]
            /\ ~ mt'[m].players[p].dc
            /\ \A g \in mt'[m].graceTimers : g.p # p
            /\ disconnectedPlayers'[pmid] = 0]_vars

\* C7: when the session of a player of a match closes, the player stays in
\* the world as it was (presence, hp) with its kills and deaths; the player is
\* recorded in the disconnected index under its match, flagged disconnected
\* if it is in the world, the session's handlers are detached and the grace
\* period is started
C7_DisconnectFrame ==
  [][\A s \in Sockets :
       (Disconnect(s) /\ BoundPlayer(s)) =>
         LET m == hdl[s].m
             p == hdl[s].p
         IN /\ mt'[m].players[p].in = mt[m].players[p].in
            /\ mt'[m].players[p].hp = mt[m].players[p].hp
            /\ mt'[m].playerScores[p] = mt[m].playerScores[p]
            /\ disconnectedPlayers'[Pid(St, m, p)] = mt[m].id
            /\ mt'[m].players[p].in => mt'[m].players[p].dc
            /\ hdl'[s] = NoHandler
            /\ \E g \in mt'[m].graceTimers : g.p = p]_vars

\* every player a match holds: on the score board, in the world, or queued
\* for respawn
Members(m) ==
  getPlayerIds(mt[m]) \cup WorldPlayers(mt[m]) \cup Range(mt[m].respawnQueue)

\* C8: no match ever holds more than MAX_PLAYERS_PER_MATCH players, counting
\* connected players, disconnected players in their grace period and dead
\* players that await respawn, whatever joins, rejoins, deaths, respawns and
\* grace expiries happen
C8_MatchCapacity ==
  \A m \in MatchIds : Cardinality(Members(m)) <= MAX_PLAYERS_PER_MATCH

\* C8 witness: a match is full with a dead player that awaits respawn and a
\* player that was disconnected and has rejoined through another session,
\* and that session had been put into a second match because the first was
\* full
C8_Witness ==
  \E m \in Registry :
    /\ Cardinality(Members(m)) = MAX_PLAYERS_PER_MATCH
    /\ mt[m].respawnQueue # <<>>
    /\ \E p \in WorldPlayers(mt[m]) :
         /\ ~ mt[m].players[p].dc
         /\ mt[m].p2s[p] # p[1]
         /\ \E o \in Registry : o # m /\ mt[m].p2s[p] \in Range(mt[o].sockets)

\* C10: a session receives matchFound before its first stateUpdate
C10_MatchFoundBeforeStateUpdate ==
  \A s \in Sockets : first[s] # "stateUpdate"

\* players that exist in a registered match
LivePlayers == {p \in PlayerIds : mt[p[2]].players[p].in}

\* C11: for each player, payloads are consumed in arrival order, at most one
\* per fixed step, and none twice: in the log of consumed payloads the server
\* ticks and the payload ticks both increase strictly, and every payload still
\* queued arrived after every payload already consumed.
C11_FifoOnePerStep ==
  \A p \in LivePlayers :
    LET c == hist.pl[p].consumed
        q == phys[p].inputQueue
    IN /\ \A i, j \in DOMAIN c : i < j => c[i][1] < c[j][1] /\ c[i][2] < c[j][2]
       /\ \A i \in DOMAIN c : \A j \in DOMAIN q : c[i][2] < q[j].tick
       /\ \A i, j \in DOMAIN q : i < j => q[i].tick < q[j].tick

\* C11 witness: two payloads were queued together and consumed by two
\* consecutive fixed steps
C11_Witness ==
  \E p \in LivePlayers :
    LET c == hist.pl[p].consumed
    IN Len(c) = 2 /\ c[2][1] = c[1][1] + 1

\* the fixed steps of the latest Match.update, for the players of the world
MaxStepsPerFrame == (Ms(MAX_FRAME_TIME) + FIXED_STEP - 1) \div FIXED_STEP
LatestSteps ==
  {pi \in PlayerIds \X (1..MaxStepsPerFrame) :
     pi[1] \in LivePlayers /\ pi[2] <= Len(hist.pl[pi[1]].trace)}
StepOf(pi) == hist.pl[pi[1]].trace[pi[2]]

\* a fixed step dequeued a payload whose (x, y) differs from the debt top
Diverges(r) ==
  /\ r.has
  /\ r.before.InputDebt # <<>>
  /\ LET top == r.before.InputDebt[Len(r.before.InputDebt)]
     IN r.input.x # top.x \/ r.input.y # top.y

\* the engine fields that Player.update writes
Motion(ph) == <<ph.x, ph.y, ph.vx, ph.vy, ph.isOnGround, ph.isOnSurface,
                ph.isJumping, ph.canDoubleJump>>

\* C12: divergence clears: whenever a dequeued input's (x, y) differs from the
\* vector on top of a non-empty debt stack, the debt stack is empty at the end
\* of that fixed step and the input has been applied with update.
C12_DivergenceClears ==
  \A pi \in LatestSteps :
    LET r == StepOf(pi)
    IN Diverges(r) =>
         /\ r.ph.InputDebt = <<>>
         /\ r.vec = Vec(r.input)
         /\ Motion(r.ph) = Motion(PlayerUpdate(r.before, Vec(r.input)))
         /\ r.ph.lastProcessedInput = r.input

\* C12 witness: a payload that differs from the debt top was dequeued while
\* two predicted vectors were owed
C12_Witness ==
  \E pi \in LatestSteps : Diverges(StepOf(pi)) /\ Len(StepOf(pi).before.InputDebt) >= 2

\* C13: idempotence under prediction: when the server ran k predictive steps
\* for a player and then consumed k real inputs equal to the predicted vector
\* (no jump, no mouse), the player's position and velocity equal those of the
\* run that applies the same k inputs one per fixed step with no prediction,
\* and the debt stack is empty.
C13_PredictionIdempotent ==
  \A p \in LivePlayers :
    LET h == hist.pl[p]
    IN h.phase = "real" /\ h.n = h.k =>
         /\ <<phys[p].x, phys[p].y, phys[p].vx, phys[p].vy>> = <<h.ref.x, h.ref.y, h.ref.vx, h.ref.vy>>
         /\ phys[p].InputDebt = <<>>

\* C13 witness: two predictive steps of a moving player were followed by two
\* real inputs equal to the predicted vector
C13_Witness ==
  \E p \in LivePlayers :
    LET h == hist.pl[p]
    IN h.phase = "real" /\ h.n = h.k /\ h.k >= 2 /\ phys[p].vx # 0

\* C14: jump is never predicted: in every fixed step where the player has no
\* queued payload, the vector passed to update has y = 0 and no mouse; the step
\* starts no jump and no double jump (vy only grows by gravity or is reset on
\* landing) and creates no projectile, whatever the last processed input was.
C14_JumpNeverPredicted ==
  \A pi \in LatestSteps :
    LET r == StepOf(pi)
    IN ~ r.has =>
         /\ r.vec.y = 0 /\ ~ r.vec.mouse
         /\ ~ r.shot
         /\ r.ph.isJumping => r.before.isJumping
         /\ r.before.canDoubleJump => r.ph.canDoubleJump
         /\ r.ph.vy \in {0, Min(r.before.vy + GRAVITY \div TICK_RATE, MAX_FALL_SPEED)}

\* C14 witness: a step without payload ran for a player who is no bystander,
\* whose last processed input was a jump with a mouse target and who still had
\* its double jump
C14_Witness ==
  \E pi \in LatestSteps :
    LET r == StepOf(pi)
    IN /\ ~ r.has
       /\ r.before.lastProcessedInput.y = -1 /\ r.before.lastProcessedInput.mouse
       /\ r.before.canDoubleJump
       /\ ~ mt[pi[1][2]].players[pi[1]].by

\* a step landed the player on a platform: it stands on the platform's top
LandedOnPlatform(ph) ==
  /\ ph.isOnSurface /\ ph.vy = 0
  /\ \E i \in DOMAIN platforms : ph.y = platforms[i].top

\* C15 (as stated): in a window of fixed steps during which no input arrives,
\* the player's y coordinate never decreases from one fixed step to the next.
C15_NoAltitudeGain ==
  \A pi \in LatestSteps :
    LET r == StepOf(pi)
    IN ~ r.has => r.ph.y >= r.before.y

\* C15 (amended): a fixed step without input gives no upward impulse: y
\* decreases in such a step only while the player is still rising from a jump
\* that a real input started earlier (vy < 0 before the step) or when the step
\* lands the player on a platform and snaps it to the platform's top.
C15_NoUpwardImpulse ==
  \A pi \in LatestSteps :
    LET r == StepOf(pi)
    IN ~ r.has /\ r.ph.y < r.before.y =>
         \/ r.before.vy < 0
         \/ LandedOnPlatform(r.ph)

\* C15 witness: a step without input moved the player upwards
C15_Witness ==
  \E pi \in LatestSteps :
    LET r == StepOf(pi)
    IN ~ r.has /\ r.ph.y < r.before.y /\ r.before.vy < 0

\* C16: serverTick is strictly monotone per match: over every step of the
\* program a match's serverTick grows by exactly the number of fixed steps
\* (updatePhysics runs) the step performed, so it never decreases and a win or
\* resetMatch leaves it as it is.
C16_ServerTickCountsSteps ==
  [][\A m \in MatchIds :
       /\ clock'[m].serverTick - clock[m].serverTick = hist'.ma[m].steps - hist.ma[m].steps
       /\ clock'[m].serverTick >= clock[m].serverTick
       /\ clock[m].serverTick = hist.ma[m].steps]_vars

\* C16 witness: a match was won and reset after fixed steps had run, and fixed
\* steps ran again after the reset
C16_Witness ==
  \E m \in MatchIds :
    /\ InUse(m)
    /\ hist.ma[m].resets = 1
    /\ 0 < hist.ma[m].tickAtReset
    /\ hist.ma[m].tickAtReset < clock[m].serverTick

\* C17: for consecutive broadcasts n and n+1 of one match, sTick(n+1) =
\* sTick(n) + 1 whenever at least one fixed step occurred between the two.
C17_BroadcastTickPlusOne ==
  \A m \in MatchIds :
    InUse(m) /\ hist.ma[m].bc = 2 /\ hist.ma[m].between >= 1 =>
      hist.ma[m].cur = hist.ma[m].prev + 1

\* C18: every player of a world has hp in [0, 100], x in [left + 25,
\* right - 25], y in [top, bottom] and vy <= 1500 in every state, hence at
\* every broadcast, after any sequence of inputs, hits, deaths, respawns and
\* match resets.
C18_PlayerBounds ==
  \A p \in LivePlayers :
    /\ mt[p[2]].players[p].hp \in 0..MAX_HP
    /\ phys[p].x >= GAME_BOUNDS.left + Px(PLAYER_HALF_WIDTH)
    /\ phys[p].x <= GAME_BOUNDS.right - Px(PLAYER_HALF_WIDTH)
    /\ phys[p].y >= GAME_BOUNDS.top
    /\ phys[p].y <= GAME_BOUNDS.bottom
    /\ phys[p].vy <= MAX_FALL_SPEED

\* a player on the arena floor is at rest there
AtRestOnFloor(ph) ==
  ph.y = GAME_BOUNDS.bottom =>
    ph.isOnSurface /\ ph.vy = 0 /\ ~ ph.isJumping /\ ph.canDoubleJump

\* C19: after every physics update, a player whose y equals the arena bottom
\* has isOnSurface = true, vy = 0, isJumping = false and canDoubleJump = true.
C19_FloorResetsJump ==
  /\ \A p \in LivePlayers : AtRestOnFloor(phys[p])
  /\ \A pi \in LatestSteps : AtRestOnFloor(StepOf(pi).ph)

\* C19 witness: an update landed a falling player on the arena floor
C19_Witness ==
  \E pi \in LatestSteps :
    LET r == StepOf(pi)
    IN /\ r.before.y < GAME_BOUNDS.bottom /\ r.before.vy > 0
       /\ r.ph.y = GAME_BOUNDS.bottom

\* a dead player: its Player object has the isDead flag set, or it was killed
\* and waits in the respawn queue of its match
isDead(p) == phys[p].isDead \/ p \in Range(mt[p[2]].respawnQueue)

Owned(mr, p) == {i \in DOMAIN mr.projectiles : mr.projectiles[i].ownerId = p}

\* C21: a player in bystander mode is immune to damage and cannot shoot: over
\* every step of the program, a player of the world whose isBystander is true
\* keeps its hp, stays in the world (it does not die) and gets no projectile.
C21_BystanderImmune ==
  [][\A p \in PlayerIds :
       mt[p[2]].players[p].in /\ mt[p[2]].players[p].by =>
         /\ mt'[p[2]].players[p].in => mt'[p[2]].players[p].hp >= mt[p[2]].players[p].hp
         /\ p \notin Range(mt'[p[2]].respawnQueue)
         /\ mt'[p[2]].playerScores[p].deaths <= mt[p[2]].playerScores[p].deaths
         /\ Cardinality(Owned(mt'[p[2]], p)) <= Cardinality(Owned(mt[p[2]], p))]_vars

\* C21 witness: a fixed step applied a bystander's input with a mouse target and
\* the bystander was then the target of a projectileHit; it has full hp and
\* owns no projectile
C21_Witness ==
  \E pi \in LatestSteps :
    LET p == pi[1]
    IN /\ mt[p[2]].players[p].by
       /\ hist.pl[p].spared
       /\ StepOf(pi).has /\ StepOf(pi).input.mouse /\ StepOf(pi).kind # "skip"
       /\ mt[p[2]].players[p].hp = MAX_HP
       /\ Owned(mt[p[2]], p) = {}

\* C22: after resetMatch every surviving player (every player of the world)
\* has hp = 100, kills = 0 and deaths = 0, while its position and its
\* bystander flag are as they were before the reset.
C22_ResetKeepsPlace ==
  [][\A m \in MatchIds :
       ResetTimer(m) =>
         \A p \in PlayerIds :
           mt'[m].players[p].in =>
             /\ mt[m].players[p].in
             /\ mt'[m].players[p].hp = MAX_HP
             /\ mt'[m].playerScores[p].kills = 0
             /\ mt'[m].playerScores[p].deaths = 0
             /\ <<phys'[p].x, phys'[p].y>> = <<phys[p].x, phys[p].y>>
             /\ mt'[m].players[p].by = mt[m].players[p].by]_vars

\* C22 witness: resetMatch has just run in a match where a player had lost hp;
\* a player that left bystander mode and moved away from the starting
\* position stands where it was, and a bystander is still a bystander
C22_Witness ==
  \E m \in MatchIds :
    /\ hist.ma[m].resets = 1 /\ hist.ma[m].healed
    /\ mt[m].matchIsActive
    /\ \A p \in WorldPlayers(mt[m]) :
         mt[m].players[p].hp = MAX_HP /\ mt[m].playerScores[p].kills = 0
    /\ \E p \in WorldPlayers(mt[m]) :
         ~ mt[m].players[p].by /\ phys[p].x \notin {NaN, Px(STARTING_X)}
    /\ \E p \in WorldPlayers(mt[m]) : mt[m].players[p].by

\* the match waits for its reset: a gameOver was emitted and the matchReset
\* that follows it was not
AwaitingReset(m) == InUse(m) /\ ~ mt[m].matchIsActive

\* C23: every gameOver is eventually followed by exactly one matchReset that
\* returns the match to ACTIVE, unless the match is cleaned up first, and
\* nothing that happens while the match awaits its reset cancels the pending
\* reset: a match awaits its reset exactly while its matchResetTimeout is
\* pending and no matchReset has followed the gameOver; an active match has
\* had exactly one matchReset since its latest gameOver; and a match that
\* awaits its reset becomes active again or is cleaned up.
C23_ResetFollowsGameOver ==
  /\ [](\A m \in MatchIds :
          InUse(m) =>
            /\ AwaitingReset(m) <=> mt[m].matchResetTimeout
            /\ AwaitingReset(m) <=> hist.ma[m].since = 0
            /\ ~ AwaitingReset(m) => hist.ma[m].since = 1)
  /\ \A m \in MatchIds :
       AwaitingReset(m) ~>
         (hist.ma[m].cleaned \/ (mt[m].matchIsActive /\ hist.ma[m].since = 1))

\* C23 witness: after a gameOver, while the match awaited its reset, a player
\* respawned and was hit and a session closed; then the match was reset and is
\* active
C23_Witness ==
  \E m \in MatchIds :
    /\ hist.ma[m].overs /\ hist.ma[m].since = 1 /\ hist.ma[m].healed
    /\ mt[m].matchIsActive /\ ~ mt[m].matchResetTimeout
    /\ \E p \in WorldPlayers(mt[m]) : mt[m].players[p].dc

\* the matches that were created and have been reaped: cleanUpSession has run
CleanedUp == {m \in MatchIds : hist.ma[m].cleaned}

\* the program state after one more cleanUpSession of match m, the history
\* aside
Repeated(m) == [cleanUpSession(St, m) EXCEPT !.hist = hist]

\* C24: cleanUpSession cancels every outstanding timer of the match (respawn,
\* AFK, grace period, match reset): in every state after it returned no timer
\* of the match is pending, the match has no player, no score and no respawn
\* entry, no session has a handler of the match and the sessions it retains
\* have no listener; no later step changes the match or its clock (so no
\* timer callback adds a player or changes the match); and a second
\* cleanUpSession changes nothing.
C24_CleanUpIsFinal ==
  /\ [](\A m \in CleanedUp :
          /\ PendingTimers(St, m) = NoTimers
          /\ WorldPlayers(mt[m]) = {} /\ getPlayerIds(mt[m]) = {}
          /\ mt[m].respawnQueue = <<>>
          /\ \A s \in Sockets : hdl[s].m # m
          /\ \A s \in Range(mt[m].sockets) : ~ joinL[s] /\ hdl[s] = NoHandler
          /\ Repeated(m) = St)
  /\ [][\A m \in CleanedUp : mt'[m] = mt[m] /\ clock'[m] = clock[m]]_vars

\* C24 witness: a match was cleaned up while a respawn timer and its match
\* reset timer were pending, a match was cleaned up while a grace period was
\* running, and a match was cleaned up while an AFK timer was pending; a
\* cleaned match retains a session that is still open
C24_Witness ==
  /\ \E m \in CleanedUp : hist.ma[m].cancelled.respawn /\ hist.ma[m].cancelled.reset
  /\ \E m \in CleanedUp : hist.ma[m].cancelled.grace
  /\ \E m \in CleanedUp : hist.ma[m].cancelled.afk
  /\ \E m \in CleanedUp : \E s \in Range(mt[m].sockets) : sock[s] = "open"

\* C25: after afkWarning, an input of that player that arrives before the 10 s
\* timer fires cancels the timer: while the player has answered its latest
\* warning no AFK timer of it is pending, so it is disconnected for inactivity
\* only after a later, new warning.
C25_InputCancelsAfkTimer ==
  \A p \in LivePlayers :
    hist.pl[p].answered =>
      /\ phys[p].afkRemoveTimer # "armed"
      /\ hist.pl[p].sent > 0

\* C25 witness: a player answered an AFK warning with an input, fixed steps
\* ran afterwards, and its session is open
C25_Witness ==
  \E p \in LivePlayers :
    /\ hist.pl[p].answered
    /\ phys[p].inputQueue = <<>> /\ phys[p].lastProcessedInput # NoInput
    /\ mt[p[2]].p2s[p] \in Sockets /\ sock[mt[p[2]].p2s[p]] = "open"

\* the session of a player of the world is open and among its match's sockets
Connected(p) ==
  /\ ~ mt[p[2]].players[p].dc
  /\ mt[p[2]].p2s[p] \in Range(mt[p[2]].sockets)
  /\ sock[mt[p[2]].p2s[p]] = "open"

\* C26: a connected player from whom no input is received for more than 60 s
\* is sent afkWarning and, with still no input, is disconnected by the 10 s
\* timer, also when a win, a death and respawn or a reconnect happens in
\* between: a connected idle player either has its removal timer pending or
\* can still be warned by the next fixed step (it has no afkRemoveTimer).
C26_IdlePlayerIsRemoved ==
  \A p \in LivePlayers :
    Connected(p) /\ phys[p].idle => phys[p].afkRemoveTimer \in {"none", "armed"}

\* C27: each projectile update is published exactly once: it appears in the
\* first broadcast after the fixed step that applied the shot input and in no
\* later broadcast; no broadcast carries a projectile that an earlier
\* broadcast has carried.
C27_PublishedOnce ==
  \A m \in MatchIds : InUse(m) => hist.ma[m].again = {}

\* C28: per player and per window of 1000 ms at most 100 playerInput messages
\* are accepted into the input queue; further messages of the same window are
\* dropped and leave the queue as it is.
C28_InputRateLimit ==
  \A p \in LivePlayers : hist.pl[p].window <= INPUTS_PER_WINDOW

\* C29: every entry of the disconnected index names a match of the registry;
\* a reaped match has all entries that pointed to it cleared, so no entry
\* refers to a reaped match.
C29_IndexNamesRegistry ==
  \A pid \in PlayerMatchIds :
    disconnectedPlayers[pid] # 0 => Registered(St, disconnectedPlayers[pid]) # 0

\* the projectiles of a match with a given owner and id
Keyed(mr, p, id) ==
  {i \in DOMAIN mr.projectiles :
     mr.projectiles[i].ownerId = p /\ mr.projectiles[i].id = id}

\* C30: a dequeued input that carries a mouse target is never skipped as
\* already-paid debt: for a non-bystander it is applied with update and yields
\* exactly one projectile keyed by the client-supplied id, even when its
\* (x, y) equals the vector on top of the debt stack.
C30_ShotNeverSkipped ==
  \A pi \in LatestSteps :
    LET r == StepOf(pi)
    IN r.has /\ r.input.mouse /\ ~ r.by =>
         /\ r.kind # "skip"
         /\ r.shot
         /\ Cardinality(Keyed(mt[pi[1][2]], pi[1], r.input.tick)) = 1

\* C31: each predictive step (no payload queued) advances the processed tick
\* by exactly one: when a previous processed input exists, the step leaves
\* lastProcessedInput.tick at its previous value + 1, also from tick 0.
C31_PredictedTickAdvances ==
  \A pi \in LatestSteps :
    StepOf(pi).kind = "A" /\ StepOf(pi).before.lastProcessedInput # NoInput =>
      StepOf(pi).ph.lastProcessedInput.tick =
        StepOf(pi).before.lastProcessedInput.tick + 1

\* the whole fixed steps of 1000 / TICK_RATE ms that the real number a holds
WholeSteps(a) ==
  IF a.thirds % FIXED_STEP = 0 /\ a.ulps < 0
  THEN a.thirds \div FIXED_STEP - 1
  ELSE a.thirds \div FIXED_STEP

\* C32: update() clamps the elapsed frame time to 100 ms and runs fixed steps
\* while accumulator >= FIXED_STEP_MS: over every pass of the driver, a match
\* that is updated after ft ms ends with 0 <= accumulator < 1000 / TICK_RATE
\* and has run floor((accumulator before + min(ft, 100)) / (1000 / TICK_RATE))
\* fixed steps, which is at most MaxStepsPerFrame however long the driver
\* stalled.
C32_StepsPerUpdate ==
  [][\A frameTimes \in [MatchIds -> FrameTimes] :
       Frame(frameTimes, ShortRun) =>
         \A m \in Registry :
           mt[m].isReady /\ ~ mt[m].shouldRemove =>
             /\ Geq(clock'[m].accumulator, Double(0))
             /\ ~ Geq(clock'[m].accumulator, [thirds |-> FIXED_STEP, ulps |-> 0])
             /\ hist'.ma[m].steps - hist.ma[m].steps =
                  WholeSteps([clock[m].accumulator EXCEPT
                                !.thirds = @ + Ms(Min(frameTimes[m], MAX_FRAME_TIME))])
             /\ clock'[m].serverTick - clock[m].serverTick =
                  hist'.ma[m].steps - hist.ma[m].steps
             /\ hist'.ma[m].steps - hist.ma[m].steps <= MaxStepsPerFrame]_vars

\* C33: at most one match-reset timer is pending at any time and gameOver is
\* emitted at most once per round: a match that awaits its reset has emitted
\* exactly one gameOver since the latest resetMatch and has exactly one reset
\* timer pending, whatever kills and win checks happen meanwhile; an active
\* match has emitted none and has none pending.
C33_OneGameOverPerRound ==
  \A m \in MatchIds :
    InUse(m) =>
      /\ hist.ma[m].go <= 1
      /\ hist.ma[m].pending <= 1
      /\ AwaitingReset(m) => hist.ma[m].go = 1 /\ hist.ma[m].pending = 1
      /\ ~ AwaitingReset(m) => hist.ma[m].go = 0 /\ hist.ma[m].pending = 0

\* C33 witness: while the match awaited its reset the winner made a further
\* kill (handlePlayerDeath ran checkWinCondition again) and fixed steps ran
C33_Witness ==
  \E m \in MatchIds :
    /\ AwaitingReset(m)
    /\ \E p \in PlayerIds : mt[m].playerScores[p].kills > MAX_KILL_AMOUNT
    /\ \E p \in LivePlayers : p[2] = m /\ hist.pl[p].trace # <<>>

\* C34: when a kill triggers the win condition, the transition cancels all
\* pending respawn timers and revives every player awaiting respawn, the
\* victim of the winning kill included: in the state right after the step that
\* emitted gameOver the respawn queue is empty, no respawn timer is pending
\* and every player of the score board is in the world.
C34_WinRevivesEveryone ==
  [][\A m \in MatchIds :
       InUse(m) /\ InUse(m)' /\ hist.ma[m].go = 0 /\ hist'.ma[m].go = 1 =>
         /\ mt'[m].respawnQueue = <<>>
         /\ mt'[m].respawnTimers = {}
         /\ \A p \in getPlayerIds(mt'[m]) : mt'[m].players[p].in]_vars

\* a player of the score board enters the world in this step: it is revived
Revived(p) ==
  /\ mt[p[2]].playerScores[p].in /\ ~ mt[p[2]].players[p].in
  /\ mt'[p[2]].players[p].in

\* C35: a killed player who stays in the match is eventually revived with full
\* hp at the starting position, by its 3 s respawn timer or at game over, and
\* at most once per death: every revival takes the player out of the respawn
\* queue it was in and yields a new player at (STARTING_X, STARTING_Y) with
\* MAX_HP; a player outside the queue is never revived; and a player in the
\* respawn queue is eventually in the world again unless its grace period
\* removed it from the match.  (A revival at game over happens inside a fixed
\* step of Match.update, and the steps of the same update then move the
\* player: the position is compared when no fixed step ran.)
C35_KilledPlayerIsRevived ==
  /\ [][\A p \in PlayerIds :
          Revived(p) =>
            /\ p \in Range(mt[p[2]].respawnQueue)
            /\ p \notin Range(mt'[p[2]].respawnQueue)
            /\ mt'[p[2]].players[p] = RespawnedPlayer
            /\ clock'[p[2]].serverTick = clock[p[2]].serverTick =>
                  <<phys'[p].x, phys'[p].y>> = <<Px(STARTING_X), Px(STARTING_Y)>>]_vars
  /\ \A p \in PlayerIds :
       (p \in Range(mt[p[2]].respawnQueue)) ~>
         (mt[p[2]].players[p].in \/ p \in {e.p : e \in expired})

\* C36: delta encoding is lossless: after every getLatestStateDelta call, the
\* copy obtained by folding the deltas returned so far, each overwriting the
\* fields it carries, starting from the first call of the Player object, holds
\* the player's current hp, bystander flag, name, isDead, kills and deaths.
C36_DeltaLossless ==
  [][DeltaBroadcast(Key(1, 1), MaxDeltas) =>
       \A f \in BroadcastFields :
         /\ hist'.pl[Key(1, 1)].fold[f].has
         /\ hist'.pl[Key(1, 1)].fold[f].v =
              getLatestState([mt |-> mt', phys |-> phys'], Key(1, 1))[f]]_vars

\* C36 witness: a Player object has returned MaxDeltas deltas and its
\* lastBroadcastState is its current state, in which it has lost hp, has left
\* bystander mode, is marked dead, and has one death and, after a resetScore
\* or from the start, no kill
C36_Witness ==
  LET p == Key(1, 1)
      last == phys[p].lastBroadcastState
  IN /\ hist.pl[p].deltas = MaxDeltas
     /\ last.set
     /\ last.s = getLatestState(St, p)
     /\ last.s.hp < MAX_HP /\ ~ last.s.isBystander /\ last.s.isDead
     /\ last.s.kills = 0 /\ last.s.deaths = 1

\* the player as update has moved it, before the platform check
BeforePlatformCheck(r) ==
  Grounded(Moved(applyGravity(Jumped(Steered(r.before, r.vec), r.vec))))

\* the player's horizontal extent overlaps the platform's
Overlaps(ph, pf) ==
  /\ ph.x # NaN
  /\ ph.x + Px(PLAYER_HALF_WIDTH) > pf.left /\ ph.x - Px(PLAYER_HALF_WIDTH) < pf.right

\* update moved the player of step r downward across the top edge of platform
\* pf, which it overlaps
CrossesTop(r, pf) ==
  /\ r.kind # "skip"
  /\ r.before.y <= pf.top
  /\ BeforePlatformCheck(r).vy > 0
  /\ BeforePlatformCheck(r).y > pf.top
  /\ Overlaps(BeforePlatformCheck(r), pf)

\* a player over platform pf that a step at fall speed v has moved from depth
\* units above the top edge to v - depth units below it
Fallen(pf, v, depth) ==
  [FreshPhys EXCEPT !.x = pf.left, !.y = pf.top - depth + v, !.vy = v]

\* C37: a falling player never passes through a platform it horizontally
\* overlaps: every fixed step that moves a player downward across the top edge
\* of such a platform ends with y = platform top and vy = 0, and no step takes
\* a player from at or above the top edge to the bottom edge or below it; the
\* platform check catches the longest and the shortest crossing at the fall
\* speed MAX_FALL_SPEED.
C37_NoTunneling ==
  /\ \A pi \in LatestSteps : \A i \in DOMAIN platforms :
       /\ CrossesTop(StepOf(pi), platforms[i]) =>
            StepOf(pi).ph.y = platforms[i].top /\ StepOf(pi).ph.vy = 0
       /\ StepOf(pi).before.y <= platforms[i].top /\ Overlaps(StepOf(pi).ph, platforms[i]) =>
            StepOf(pi).ph.y < platforms[i].bottom
  /\ \A i \in DOMAIN platforms :
       \A depth \in {0, MAX_FALL_SPEED - GRAVITY \div TICK_RATE} :
         /\ HitsPlatform(Fallen(platforms[i], MAX_FALL_SPEED, depth), platforms[i])
         /\ Collided(Fallen(platforms[i], MAX_FALL_SPEED, depth)).y = platforms[i].top
         /\ Collided(Fallen(platforms[i], MAX_FALL_SPEED, depth)).vy = 0

\* C37 witness: a fixed step moved a falling player below the top edge of a
\* platform and ended with the player standing on it
C37_Witness ==
  \E pi \in LatestSteps : \E i \in DOMAIN platforms :
    /\ CrossesTop(StepOf(pi), platforms[i])
    /\ StepOf(pi).before.y < platforms[i].top
    /\ StepOf(pi).ph.y = platforms[i].top

\* the payload of step r with the jump taken out of it
WithoutJump(r) == [x |-> r.vec.x, y |-> 0, mouse |-> r.vec.mouse]

\* C38: between two contacts with a surface a player can start at most two
\* jumps, one from the surface and one double jump.  A player that may not
\* double jump is in the air; a step that starts a jump in the air takes the
\* double jump away; and while the double jump is gone a step either lands the
\* player or leaves canDoubleJump false and moves the player exactly as the
\* same input without the jump would.
C38_AtMostTwoJumps ==
  /\ \A p \in LivePlayers : ~ phys[p].canDoubleJump => ~ phys[p].isOnSurface
  /\ \A pi \in LatestSteps :
       /\ ~ StepOf(pi).before.canDoubleJump => ~ StepOf(pi).before.isOnSurface
       /\ /\ StepOf(pi).kind # "skip" /\ StepOf(pi).vec.y < 0
          /\ ~ StepOf(pi).before.isOnSurface /\ ~ StepOf(pi).ph.isOnSurface
          => ~ StepOf(pi).ph.canDoubleJump
       /\ ~ StepOf(pi).before.canDoubleJump /\ ~ StepOf(pi).ph.isOnSurface =>
            /\ ~ StepOf(pi).ph.canDoubleJump
            /\ StepOf(pi).kind # "skip" =>
                 Motion(StepOf(pi).ph) =
                   Motion(PlayerUpdate(StepOf(pi).before, WithoutJump(StepOf(pi))))

\* C38 witness: a player that had jumped from a surface and had used its
\* double jump sent a third jump input while still in the air, and the step
\* that applied it left the player falling
C38_Witness ==
  \E pi \in LatestSteps :
    /\ StepOf(pi).kind # "skip" /\ StepOf(pi).vec.y < 0
    /\ StepOf(pi).before.isJumping /\ ~ StepOf(pi).before.canDoubleJump
    /\ ~ StepOf(pi).ph.isOnSurface
    /\ StepOf(pi).ph.vy = StepOf(pi).before.vy + GRAVITY \div TICK_RATE

\* C39: a projectileHit whose enemyId is the reporting player's own id has no
\* effect: the step that handles such a report of player 1 leaves every match
\* as it is, so no player takes damage from, dies by or gains a kill from its
\* own hit report.
C39_OwnHitHasNoEffect ==
  [][ProjectileHit(1, PlayerMatchId(1, 1), RespawnDeaths) => mt' = mt]_vars

\* C40: after resetMatch returns the match to ACTIVE no retained score
\* satisfies the win condition: as long as no kill has happened since the
\* latest resetMatch, no score of the match has MAX_KILL_AMOUNT kills and no
\* gameOver has been emitted in the new round, also when players were killed
\* while the match awaited its reset or were dead at the moment of the reset.
C40_NewRoundNeedsNewKill ==
  \A m \in MatchIds :
    InUse(m) /\ hist.ma[m].resets = 1 /\ ~ hist.ma[m].newKill =>
      ~ HasWinner(mt[m]) /\ hist.ma[m].go = 0

====
